---- MODULE Spec2Model ----
(***************************************************************************)
(* A model of shastity's storage queue (src/shastity/storagequeue.py), of  *)
(* the per-file block synchroniser of materialization                      *)
(* (src/shastity/materialization.py, FileMaterialization), of materialize  *)
(* on top of both, and of the persist command (src/shastity/persistence.py,*)
(* commands.persist, manifest.write_manifest).                             *)
(*                                                                         *)
(* Specifications.  Spec and FairSpec: clients on a queue.  SpecWB: one    *)
(* FileMaterialization called once per block number.  SpecMat: materialize *)
(* of a manifest.  SpecPersist: commands.persist of a tree.                *)
(*                                                                         *)
(* Threads.  Client threads call enqueue(), wait() and barrier() on one    *)
(* StorageQueue.  Every enqueued operation gets a dedicated worker thread  *)
(* (thread.start_new_thread in __start_op) running op.perform(backend).    *)
(*                                                                         *)
(* Atomicity.  Code that runs with the queue's condition lock held and     *)
(* does not block is one action; cond.wait() releases the lock, so a       *)
(* blocked thread is a thread whose program counter is at the wait and     *)
(* who is in the set of waiters.  cond.notify() wakes one waiter, which    *)
(* then re-acquires the lock and re-evaluates its while condition.  Which   *)
(* waiter notify() picks is left open, and wait() returns only when        *)
(* notified.  A worker's execute() and __set_result() are one step; what   *)
(* perform() does between __remove_op and the callback is local to it.     *)
(***************************************************************************)
EXTENDS Integers, Sequences, FiniteSets, TLC

\* ------------------------------------------------------------------ bounds
\* largest max_conc given to StorageQueue.__init__
MaxConc == 2
\* number of operation objects constructed in a run with one producer thread
MaxOps == 3
\* number of operation objects constructed in a run with two producer threads
MaxOpsShared == 2
\* number of operation objects constructed in a run checked for progress
MaxOpsFair == 2
\* largest number of blocks of a materialized file
MaxBlocks == 3
\* largest number of entries of a materialized manifest
MaxEntries == 3
\* largest number of blocks of all files of a materialized manifest together
MaxMatBlocks == 2

\* largest number of entries of a persisted traversal, the root included
MaxTraversal == 3
\* largest number of bytes of all files of a persisted tree together
MaxBytes == 3
\* largest blocksize given to persist
MaxBlockSize == 2

\* largest length of a path given to spencode
MaxStrLen == 3

\* largest user id and size scale of the files whose metadata is converted
MaxId == 12

\* largest number of entries of a manifest written
MaxManifest == 2

\* largest number of lines of a manifest text read without having been written
MaxLines == 4

\* largest number of names in a path given to _persist_file
MaxDepth == 3

\* largest number of calls made on the MemoryBackend instances
MaxCalls == 3

\* stale temporary files in the backend directory, and DirectoryBackend
\* instances constructed on it
MaxStale == 2

MaxInst == 2

\* the client (producer) threads
Clients == {"c1", "c2"}
Max(S) == CHOOSE m \in S : \A n \in S : n <= m
OpIds == 1..Max({MaxOps, MaxOpsShared, MaxOpsFair, MaxMatBlocks, MaxBytes})
Names == {"x"}
BlockNums == 0..(MaxBlocks - 1)
\* the byte strings a block may consist of
BlockChoices == {<<"a">>, <<"b", "a">>}
\* the operations callers construct, as <<kind, has a callback>>: the only
\* caller that passes a callback is materialize, on a GetOperation
OpShapes == {<<"PUT", FALSE>>, <<"GET", FALSE>>, <<"GET", TRUE>>, <<"DEL", FALSE>>}

\* StorageOperation.__result before __set_result; afterwards it is the pair
\* (success, data)
None == <<>>
\* Python's None, returned by put() and delete()
PyNone == <<"None", 0>>
\* the traceback of the KeyError of a get or delete of a missing name
KeyError == <<"KeyError", 0>>
\* the bytes a PutOperation constructed as the o-th operation carries
DataOf(o) == <<"data", o>>
\* a name with no entry in the store
Absent == <<"absent", 0>>

VARIABLES
    producers,    \* the client threads that use the queue in this run
    limit,        \* the number of operations they construct at most
    max_conc,     \* StorageQueue.max_conc
    oplist,       \* the StorageOperation objects constructed so far
    result,       \* StorageOperation.__result of each of them
    wpc,          \* position of each operation's worker thread
    wbackend,     \* backend instance bound to each operation's worker
    ops,          \* StorageQueue.__ops
    backends,     \* StorageQueue.__backends
    factoryCalls, \* number of backend_factory() calls
    failed,       \* StorageQueue.__failed
    waiters,      \* threads blocked in StorageQueue.__cond.wait()
    store,        \* memorybackend._dict
    pc,           \* position of each client thread
    cur,          \* the operation a client is enqueueing
    status,       \* how the last completed call of a client ended
    epoch,        \* number of returned wait()/barrier() calls that followed an enqueue
    before,       \* the operations already enqueued when a client called wait()
    totblocks,    \* FileMaterialization.__totblocks
    blocks,       \* the byte string write_block is called with, per block number
    last_block,   \* FileMaterialization.__last_block
    written,      \* the block numbers of the fobj.write() calls, in order
    fcontent,     \* the bytes written to FileMaterialization.__fobj
    fsyncs,       \* number of fs.fsync() calls on the file
    fclosed,      \* whether __fobj has been closed
    wbpc,         \* position of the thread calling write_block(., i)
    wbwaiters,    \* threads blocked in FileMaterialization.__cond.wait()
    destIsDir,    \* fs.is_dir(destpath) when materialize is called
    entries,      \* the (path, metadata, hashes) tuples entryiter yields
    mpc,          \* position of the thread running materialize
    mnext,        \* number of entries taken from entryiter
    curdir,       \* materialize's local curdir
    m13n,         \* materialize's local m13n, read by the callbacks
    block_num,    \* the comprehension's block_num, read by the callbacks
    mops,         \* the part of the list ops not yet enqueued
    fsnode,       \* what the file system holds at each entry's local_path
    files,        \* the FileMaterialization objects and their file objects
    cbargs,       \* the (m13n, block_num) a running callback has read
    debug,        \* __debug__: whether assert statements are executed
    basepath,     \* the basepath given to persist
    traversal,    \* the (path, metadata) entries the traversal yields
    blocksize,    \* the blocksize given to persist
    uploaded,     \* the skip_blocks given to persist
    skipblocks,   \* persist's own copy of it, extended by _persist_file
    ppc,          \* position of the thread running commands.persist
    pnext,        \* number of entries taken from the traversal
    fpos,         \* read position in the file being persisted
    parts,        \* _next_block's parts
    phashes,      \* _persist_file's hashes
    mf,           \* the entries persist has yielded
    mf_lines,     \* write_manifest's lines for the entries consumed
    mstore,       \* the put() calls on the manifest backend
    cfun,         \* the conversion applied in this run
    cin,          \* its argument
    cmid,         \* the converted value
    cout,         \* what the inverse conversion makes of the converted value
    cpc,          \* how far the run has got
    cerr,         \* the exception that ended it, "none" while there is none
    bcalls,       \* the calls made on MemoryBackend instances, in order
    bret,         \* what the last of them returned or raised
    bdict,        \* memorybackend._dict, shared by all instances
    ddir,         \* the directory DirectoryBackend instances are constructed on
    dinst         \* the DirectoryBackend instances and the thread using each

qvars == <<producers, limit, max_conc, oplist, result, wpc, wbackend, ops, backends, factoryCalls,
           failed, waiters, store, pc, cur, status, epoch, before>>

fvars == <<totblocks, blocks, last_block, written, fcontent, fsyncs, fclosed,
           wbpc, wbwaiters>>

mvars == <<destIsDir, entries, mpc, mnext, curdir, m13n, block_num, mops, fsnode,
           files, cbargs>>

pvars == <<debug, basepath, traversal, blocksize, uploaded, skipblocks, ppc, pnext, fpos,
           parts, phashes, mf, mf_lines, mstore>>

cvars == <<cfun, cin, cmid, cout, cpc, cerr>>

bvars == <<bcalls, bret, bdict>>

dvars == <<ddir, dinst>>

ovars == <<cvars, bvars, dvars>>

vars == <<qvars, fvars, mvars, pvars, ovars>>

Created == 1..Len(oplist)

\* the operations whose enqueue() call has added them to __ops
Enqueued == {o \in Created : wpc[o] # "new"}

\* ------------------------------------------------- StorageOperation queries
is_done(o) == result[o] # None

\* succeeded() without its assertion: None[0] raises a TypeError
succeeded_unasserted(o) ==
    IF result[o] = None THEN "TypeError" ELSE result[o][1]

\* assert self.__result is not None; return self.__result[0]
succeeded(o) ==
    IF result[o] = None
      THEN IF debug THEN "AssertionError" ELSE "TypeError"
      ELSE result[o][1]

\* the two assertions; return self.__result[1]
value(o) ==
    IF result[o] = None
      THEN IF debug THEN "AssertionError" ELSE "TypeError"
    ELSE IF ~result[o][1] /\ debug THEN "AssertionError"
    ELSE result[o][2]

\* ------------------------------------------------------------ the backend
\* PutOperation/GetOperation/DeleteOperation.execute against the in-memory
\* backend: the pair (outcome, store afterwards).  An outcome is
\* <<TRUE, return value>> or <<FALSE, traceback>> for a raised exception.
execute(o, st) ==
    LET op == oplist[o] IN
    CASE op.kind = "PUT" ->
           <<<<TRUE, PyNone>>, [st EXCEPT ![op.name] = op.data]>>
      [] op.kind = "GET" ->
           IF st[op.name] = Absent
             THEN <<<<FALSE, KeyError>>, st>>
             ELSE <<<<TRUE, st[op.name]>>, st>>
      [] op.kind = "DEL" ->
           IF st[op.name] = Absent
             THEN <<<<FALSE, KeyError>>, st>>
             ELSE <<<<TRUE, PyNone>>, [st EXCEPT ![op.name] = Absent]>>

\* ------------------------------------------------------------------- Init
\* StorageQueue.__init__, the operations' and the clients' initial state,
\* and the store as the tests' setUp leaves it: without the names used
InitQueueWith(st) ==
    /\ oplist = <<>>
    /\ result = <<>>
    /\ wpc = <<>>
    /\ wbackend = <<>>
    /\ ops = {}
    /\ backends = {}
    /\ factoryCalls = 0
    /\ failed = FALSE
    /\ waiters = {}
    /\ store = st
    /\ pc = [c \in Clients |-> "idle"]
    /\ cur = [c \in Clients |-> 0]
    /\ status = [c \in Clients |-> "ok"]
    /\ epoch = [c \in Clients |-> 0]
    /\ before = [c \in Clients |-> {}]

InitQueue == InitQueueWith([n \in Names |-> Absent])

\* materialize is not called in this run
InitMatOff ==
    /\ destIsDir = FALSE
    /\ entries = <<>>
    /\ mpc = "off"
    /\ mnext = 0
    /\ curdir = None
    /\ m13n = 0
    /\ block_num = -1
    /\ mops = <<>>
    /\ fsnode = <<>>
    /\ files = <<>>
    /\ cbargs = <<>>

\* no conversion and no direct backend call is made in this run
InitOthersOff ==
    /\ cfun = "off"
    /\ cin = None
    /\ cmid = None
    /\ cout = None
    /\ cpc = "off"
    /\ cerr = "none"
    /\ bcalls = <<>>
    /\ bret = None
    /\ bdict = <<>>
    /\ ddir = [exists |-> FALSE, files |-> {}]
    /\ dinst = <<>>

\* commands.persist is not called in this run
InitPersistOff ==
    /\ debug = TRUE
    /\ basepath = <<>>
    /\ traversal = <<>>
    /\ blocksize = 1
    /\ uploaded = <<>>
    /\ skipblocks = <<>>
    /\ ppc = "off"
    /\ pnext = 0
    /\ fpos = 0
    /\ parts = <<>>
    /\ phashes = <<>>
    /\ mf = <<>>
    /\ mf_lines = <<>>
    /\ mstore = <<>>

\* FileMaterialization.__init__ for a file of n blocks
InitFile(n) ==
    /\ totblocks = n
    /\ blocks \in [0..(n - 1) -> BlockChoices]
    /\ last_block = -1
    /\ written = <<>>
    /\ fcontent = <<>>
    /\ fsyncs = 0
    /\ fclosed = FALSE
    /\ wbpc = [i \in BlockNums |-> "idle"]
    /\ wbwaiters = {}

\* Either one producer thread, as in persist and materialize, on a queue of
\* any max_conc up to MaxConc, or two producer threads contending for the
\* single slot of a queue with max_conc = 1.
Init ==
    /\ \/ producers = {"c1"} /\ limit = MaxOps /\ max_conc \in 1..MaxConc
       \/ producers = Clients /\ limit = MaxOpsShared /\ max_conc = 1
    /\ InitQueue
    /\ InitFile(0)
    /\ InitMatOff
    /\ InitPersistOff
    /\ InitOthersOff

\* ------------------------------------------------------ StorageQueue.enqueue
\* enqueue without its test of __failed
enqueue_refuses_never == FALSE

\* if self.__failed: raise OperationHasFailed
enqueue_refuses == failed

\* The caller constructs an operation and calls enqueue(op); the first
\* statement of enqueue tests __failed, without the lock.
EnqueueCall(c, kind, name, cb) ==
    /\ c \in producers
    /\ pc[c] = "idle"
    /\ Len(oplist) < limit
    /\ LET o == Len(oplist) + 1 IN
       /\ oplist' = Append(oplist, [kind |-> kind, name |-> name, data |-> DataOf(o),
                                    callback |-> cb, owner |-> c,
                                    epoch |-> epoch[c]])
       /\ result' = Append(result, None)
       /\ wpc' = Append(wpc, "new")
       /\ wbackend' = Append(wbackend, 0)
       /\ IF enqueue_refuses
            THEN /\ status' = [status EXCEPT ![c] = "OperationHasFailed"]
                 /\ UNCHANGED <<pc, cur>>
            ELSE /\ pc' = [pc EXCEPT ![c] = "enq_lock"]
                 /\ cur' = [cur EXCEPT ![c] = o]
                 /\ UNCHANGED status
    /\ UNCHANGED <<producers, limit, max_conc, ops, backends, factoryCalls, failed, waiters, store, epoch, before>>
    /\ UNCHANGED <<fvars, mvars, pvars, ovars>>

\* an off-by-one in the while condition: len(self.__ops) > self.max_conc
EnqueueMustWait_offbyone == Cardinality(ops) > max_conc

\* while len(self.__ops) >= self.max_conc: self.__cond.wait()
EnqueueMustWait == Cardinality(ops) >= max_conc

\* enqueue, lock held, the while condition is true: cond.wait()
EnqueueBlock(c) ==
    /\ pc[c] \in {"enq_lock", "enq_woken"}
    /\ EnqueueMustWait
    /\ pc' = [pc EXCEPT ![c] = "enq_wait"]
    /\ waiters' = waiters \cup {c}
    /\ UNCHANGED <<producers, limit, max_conc, oplist, result, wpc, wbackend, ops, backends, factoryCalls,
                   failed, store, cur, status, epoch, before>>
    /\ UNCHANGED <<fvars, mvars, pvars, ovars>>

\* __start_op: take a pooled backend or call the factory, start the worker
start_op(o) ==
    /\ IF backends # {}
         THEN \E b \in backends :
                /\ backends' = backends \ {b}
                /\ wbackend' = [wbackend EXCEPT ![o] = b]
                /\ UNCHANGED factoryCalls
         ELSE /\ factoryCalls' = factoryCalls + 1
              /\ wbackend' = [wbackend EXCEPT ![o] = factoryCalls + 1]
              /\ UNCHANGED backends
    /\ wpc' = [wpc EXCEPT ![o] = "run"]

\* enqueue, lock held, the while condition is false: add the op, start it
EnqueueAdmit(c) ==
    /\ pc[c] \in {"enq_lock", "enq_woken"}
    /\ ~EnqueueMustWait
    /\ ops' = ops \cup {cur[c]}
    /\ start_op(cur[c])
    /\ pc' = [pc EXCEPT ![c] = "idle"]
    /\ cur' = [cur EXCEPT ![c] = 0]
    /\ status' = [status EXCEPT ![c] = "ok"]
    /\ UNCHANGED <<producers, limit, max_conc, oplist, result, failed, waiters, store, epoch, before>>
    /\ UNCHANGED <<fvars, mvars, pvars, ovars>>

\* ------------------------------------------------ StorageOperation.perform
\* a worker that gives up, without a result, once the queue has failed
Execute_cancelled(o) ==
    /\ o \in Created
    /\ wpc[o] = "run"
    /\ ~failed
    /\ LET r == execute(o, store) IN
       /\ result' = [result EXCEPT ![o] = r[1]]
       /\ store' = r[2]
    /\ wpc' = [wpc EXCEPT ![o] = "notify"]
    /\ UNCHANGED <<producers, limit, max_conc, oplist, wbackend, ops, backends, factoryCalls, failed,
                   waiters, pc, cur, status, epoch, before>>
    /\ UNCHANGED <<fvars, mvars, pvars, ovars>>

\* self.__set_result(True, self.execute(backend)), or the except branch's
\* self.__set_result(False, traceback)
Execute(o) ==
    /\ o \in Created
    /\ wpc[o] = "run"
    /\ LET r == execute(o, store) IN
       /\ result' = [result EXCEPT ![o] = r[1]]
       /\ store' = r[2]
    /\ wpc' = [wpc EXCEPT ![o] = "notify"]
    /\ UNCHANGED <<producers, limit, max_conc, oplist, wbackend, ops, backends, factoryCalls, failed,
                   waiters, pc, cur, status, epoch, before>>
    /\ UNCHANGED <<fvars, mvars, pvars, ovars>>

\* cond.notify(): one waiting thread, if there is one, is woken
notify ==
    IF waiters = {}
      THEN UNCHANGED <<waiters, pc>>
      ELSE \E w \in waiters :
             /\ waiters' = waiters \ {w}
             /\ pc' = [pc EXCEPT ![w] = IF pc[w] = "enq_wait" THEN "enq_woken"
                                                               ELSE "wait_woken"]

\* __remove_op without "if not success: self.__failed = True"
remove_op_failed_kept(success) == failed

\* what __remove_op does to __failed
remove_op_failed(success) == IF ~success THEN TRUE ELSE failed

\* perform with "if self.callback" in place of "if self.__result[0] and
\* self.callback": the callback is called whatever the outcome
RemoveOp_callback_always(o) ==
    /\ o \in Created
    /\ wpc[o] = "notify"
    /\ o \in ops
    /\ failed' = remove_op_failed(result[o][1])
    /\ ops' = ops \ {o}
    /\ notify
    /\ wpc' = [wpc EXCEPT ![o] = IF oplist[o].callback THEN "callback" ELSE "end"]
    /\ UNCHANGED <<producers, limit, max_conc, oplist, result, wbackend, backends, factoryCalls, store,
                   cur, status, epoch, before>>
    /\ UNCHANGED <<fvars, mvars, pvars, ovars>>

\* notify_operation_complete / notify_operation_failed -> __remove_op; back
\* in perform, "if self.__result[0] and self.callback" either enters the
\* callback or lets perform return (a step local to the worker)
RemoveOp(o) ==
    /\ o \in Created
    /\ wpc[o] = "notify"
    /\ o \in ops
    /\ failed' = remove_op_failed(result[o][1])
    /\ ops' = ops \ {o}
    /\ notify
    /\ wpc' = [wpc EXCEPT ![o] = IF result[o][1] /\ oplist[o].callback
                                   THEN "callback" ELSE "end"]
    /\ UNCHANGED <<producers, limit, max_conc, oplist, result, wbackend, backends, factoryCalls, store,
                   cur, status, epoch, before>>
    /\ UNCHANGED <<fvars, mvars, pvars, ovars>>

\* the callback returns (it may block for as long as it likes before)
CallbackReturn(o) ==
    /\ o \in Created
    /\ wpc[o] = "callback"
    /\ wpc' = [wpc EXCEPT ![o] = "end"]
    /\ UNCHANGED <<producers, limit, max_conc, oplist, result, wbackend, ops, backends, factoryCalls,
                   failed, waiters, store, pc, cur, status, epoch, before>>
    /\ UNCHANGED <<fvars, mvars, pvars, ovars>>

\* --------------------------------------------- StorageQueue.wait / barrier
\* barrier() is entered; its body is self.wait()
BarrierCall(c) ==
    /\ c \in producers
    /\ pc[c] = "idle"
    /\ pc' = [pc EXCEPT ![c] = "barrier"]
    /\ UNCHANGED <<producers, limit, max_conc, oplist, result, wpc, wbackend, ops, backends, factoryCalls,
                   failed, waiters, store, cur, status, epoch, before>>
    /\ UNCHANGED <<fvars, mvars, pvars, ovars>>

\* wait() is entered, by a client or from barrier()
WaitCall(c) ==
    /\ c \in producers
    /\ pc[c] \in {"idle", "barrier"}
    /\ pc' = [pc EXCEPT ![c] = "wait_lock"]
    /\ before' = [before EXCEPT ![c] = Enqueued]
    /\ UNCHANGED <<producers, limit, max_conc, oplist, result, wpc, wbackend, ops, backends, factoryCalls,
                   failed, waiters, store, cur, status, epoch>>
    /\ UNCHANGED <<fvars, mvars, pvars, ovars>>

\* wait() with enqueue's while condition: it waits for a free slot only
WaitMustWait_slot == Cardinality(ops) >= max_conc

\* wait() that does not wait
WaitMustWait_never == FALSE

\* while self.__ops: self.__cond.wait()
WaitMustWait == ops # {}

WaitBlock(c) ==
    /\ pc[c] \in {"wait_lock", "wait_woken"}
    /\ WaitMustWait
    /\ pc' = [pc EXCEPT ![c] = "wait_wait"]
    /\ waiters' = waiters \cup {c}
    /\ UNCHANGED <<producers, limit, max_conc, oplist, result, wpc, wbackend, ops, backends, factoryCalls,
                   failed, store, cur, status, epoch, before>>
    /\ UNCHANGED <<fvars, mvars, pvars, ovars>>

\* the while condition is false: leave the with block
WaitDrained(c) ==
    /\ pc[c] \in {"wait_lock", "wait_woken"}
    /\ ~WaitMustWait
    /\ pc' = [pc EXCEPT ![c] = "wait_check"]
    /\ UNCHANGED <<producers, limit, max_conc, oplist, result, wpc, wbackend, ops, backends, factoryCalls,
                   failed, waiters, store, cur, status, epoch, before>>
    /\ UNCHANGED <<fvars, mvars, pvars, ovars>>

\* wait() that returns normally whatever has failed
wait_raises_never == FALSE

\* if self.__failed: raise OperationHasFailed, else return
wait_raises == failed

WaitReturn(c) ==
    /\ pc[c] = "wait_check"
    /\ pc' = [pc EXCEPT ![c] = "idle"]
    /\ status' = [status EXCEPT ![c] = IF wait_raises THEN "OperationHasFailed" ELSE "ok"]
    /\ epoch' = [epoch EXCEPT ![c] =
                    IF \E o \in Created : oplist[o].owner = c /\ oplist[o].epoch = epoch[c]
                      THEN epoch[c] + 1 ELSE epoch[c]]
    /\ before' = [before EXCEPT ![c] = {}]
    /\ UNCHANGED <<producers, limit, max_conc, oplist, result, wpc, wbackend, ops, backends, factoryCalls,
                   failed, waiters, store, cur>>
    /\ UNCHANGED <<fvars, mvars, pvars, ovars>>

\* ------------------------------------------ FileMaterialization.write_block
\* write_block(blocks[i], i) is called, once per block number, each call on
\* a thread of its own
WBInvoke(i) ==
    /\ i \in 0..(totblocks - 1)
    /\ wbpc[i] = "idle"
    /\ wbpc' = [wbpc EXCEPT ![i] = "enter"]
    /\ UNCHANGED <<totblocks, blocks, last_block, written, fcontent, fsyncs,
                   fclosed, wbwaiters>>
    /\ UNCHANGED <<qvars, mvars, pvars, ovars>>

\* a loop condition with the comparison the wrong way round
WBMustWait_greater(i) == last_block > i - 1

\* while self.__last_block != block_num - 1: self.__cond.wait()
WBMustWait(i) == last_block # i - 1

\* first with block, the while condition is true: cond.wait().  No statement
\* of the class calls notify() on this condition, so the call never returns.
WBWait(i) ==
    /\ wbpc[i] = "enter"
    /\ WBMustWait(i)
    /\ wbpc' = [wbpc EXCEPT ![i] = "waiting"]
    /\ wbwaiters' = wbwaiters \cup {i}
    /\ UNCHANGED <<totblocks, blocks, last_block, written, fcontent, fsyncs, fclosed>>
    /\ UNCHANGED <<qvars, mvars, pvars, ovars>>

\* first with block, the while condition is false: the lock is released
WBPass(i) ==
    /\ wbpc[i] = "enter"
    /\ ~WBMustWait(i)
    /\ wbpc' = [wbpc EXCEPT ![i] = "write"]
    /\ UNCHANGED <<totblocks, blocks, last_block, written, fcontent, fsyncs,
                   fclosed, wbwaiters>>
    /\ UNCHANGED <<qvars, mvars, pvars, ovars>>

\* assert self.__last_block == block_num - 1; self.__fobj.write(bytestr),
\* which raises ValueError on a closed file
WBWrite(i) ==
    /\ wbpc[i] = "write"
    /\ IF last_block # i - 1
         THEN /\ wbpc' = [wbpc EXCEPT ![i] = "AssertionError"]
              /\ UNCHANGED <<written, fcontent>>
         ELSE IF fclosed
         THEN /\ wbpc' = [wbpc EXCEPT ![i] = "ValueError"]
              /\ UNCHANGED <<written, fcontent>>
         ELSE /\ written' = Append(written, i)
              /\ fcontent' = fcontent \o blocks[i]
              /\ wbpc' = [wbpc EXCEPT ![i] = "update"]
    /\ UNCHANGED <<totblocks, blocks, last_block, fsyncs, fclosed, wbwaiters>>
    /\ UNCHANGED <<qvars, mvars, pvars, ovars>>

\* flush, fsync and close after every block
is_final_block_always(i) == TRUE

\* if block_num == self.__totblocks - 1
is_final_block(i) == i = totblocks - 1

\* second with block: self.__last_block += 1, the assertion, and after the
\* final block flush, fsync and close
WBUpdate(i) ==
    /\ wbpc[i] = "update"
    /\ last_block' = last_block + 1
    /\ IF last_block + 1 # i
         THEN /\ wbpc' = [wbpc EXCEPT ![i] = "AssertionError"]
              /\ UNCHANGED <<fsyncs, fclosed>>
         ELSE /\ wbpc' = [wbpc EXCEPT ![i] = "done"]
              /\ IF is_final_block(i)
                   THEN fsyncs' = fsyncs + 1 /\ fclosed' = TRUE
                   ELSE UNCHANGED <<fsyncs, fclosed>>
    /\ UNCHANGED <<totblocks, blocks, written, fcontent, wbwaiters>>
    /\ UNCHANGED <<qvars, mvars, pvars, ovars>>

InitWB ==
    /\ producers = {} /\ limit = 0
    /\ max_conc = 1
    /\ InitQueue
    /\ \E n \in 1..MaxBlocks : InitFile(n)
    /\ InitMatOff
    /\ InitPersistOff
    /\ InitOthersOff

NextWB ==
    \/ \E i \in BlockNums : WBInvoke(i)
    \/ \E i \in BlockNums : WBWait(i)
    \/ \E i \in BlockNums : WBPass(i)
    \/ \E i \in BlockNums : WBWrite(i)
    \/ \E i \in BlockNums : WBUpdate(i)

SpecWB == InitWB /\ [][NextWB]_vars

\* ------------------------------------------------------------- materialize
\* The manifests given to materialize.  An entry is (path, metadata, hashes);
\* of the metadata only the type matters here.  The e-th entry has the path
\* "d" for e = 1 and "d/<e>" otherwise, as a sequence of characters.
PathOf(e) == IF e = 1 THEN <<"d">> ELSE <<"d", "/", ToString(e)>>

EntryShapes ==
    {<<"dir", 0>>, <<"symlink", 0>>} \cup {<<"file", n>> : n \in 0..MaxMatBlocks}

RECURSIVE TotalBlocks(_)
TotalBlocks(m) == IF m = <<>> THEN 0 ELSE Head(m)[2] + TotalBlocks(Tail(m))

Manifests ==
    {m \in UNION {[1..k -> EntryShapes] : k \in 1..MaxEntries} :
        TotalBlocks(m) <= MaxMatBlocks}

\* the name of block i of entry e, and the bytes stored under it
BlockName(e, i) == <<e, i>>
BlockData(e, i) == <<"data", e, i>>
MatStore ==
    [n \in (1..MaxEntries) \X (0..(MaxMatBlocks - 1)) |-> BlockData(n[1], n[2])]

\* hashes of entry e: the names of its blocks, in order
hashes(e) == [i \in 1..entries[e].nblocks |-> BlockName(e, i - 1)]

\* str.startswith
startswith(p, q) == Len(q) <= Len(p) /\ SubSeq(p, 1, Len(q)) = q

\* no FileMaterialization yet
NoFile == [totblocks |-> 0, last_block |-> -1, written |-> <<>>, fsyncs |-> 0,
           closed |-> FALSE, open |-> FALSE]

\* the thread that runs materialize
MatThread == "c1"

InitMat ==
    /\ producers = {MatThread} /\ limit = 0
    /\ max_conc \in 1..MaxConc
    /\ InitQueueWith(MatStore)
    /\ InitFile(0)
    /\ InitPersistOff
    /\ InitOthersOff
    /\ destIsDir \in BOOLEAN
    /\ \E m \in Manifests :
         /\ entries = [e \in 1..Len(m) |->
                          [path |-> PathOf(e), kind |-> m[e][1], nblocks |-> m[e][2]]]
         /\ fsnode = [e \in 1..Len(m) |-> "none"]
         /\ files = [e \in 1..Len(m) |-> NoFile]
    /\ mpc = "start"
    /\ mnext = 0
    /\ curdir = None
    /\ m13n = 0
    /\ block_num = -1
    /\ mops = <<>>
    /\ cbargs = [o \in OpIds |-> <<0, -1>>]

\* materialize that does not look at destpath
dest_not_directory_unchecked == FALSE

\* if not fs.is_dir(destpath)
dest_not_directory == ~destIsDir

\* if not fs.is_dir(destpath): raise DestinationPathNotDirectory(destpath)
MatStart ==
    /\ mpc = "start"
    /\ mpc' = IF dest_not_directory THEN "DestinationPathNotDirectory" ELSE "iter"
    /\ UNCHANGED <<destIsDir, entries, mnext, curdir, m13n, block_num, mops, fsnode,
                   files, cbargs>>
    /\ UNCHANGED <<qvars, fvars, pvars, ovars>>

\* for path, metadata, hashes in entryiter: the iterator is exhausted and
\* materialize returns
MatReturn ==
    /\ mpc = "iter"
    /\ pc[MatThread] = "idle"
    /\ mnext = Len(entries)
    /\ mpc' = "returned"
    /\ UNCHANGED <<destIsDir, entries, mnext, curdir, m13n, block_num, mops, fsnode,
                   files, cbargs>>
    /\ UNCHANGED <<qvars, fvars, pvars, ovars>>

\* a directory entry: fs.mkdir(local_path); curdir = path
MatDirectory ==
    /\ mpc = "iter"
    /\ pc[MatThread] = "idle"
    /\ mnext < Len(entries)
    /\ LET e == mnext + 1 IN
       /\ entries[e].kind = "dir"
       /\ mnext' = e
       /\ fsnode' = [fsnode EXCEPT ![e] = "dir"]
       /\ curdir' = entries[e].path
    /\ UNCHANGED <<destIsDir, entries, mpc, m13n, block_num, mops, files, cbargs>>
    /\ UNCHANGED <<qvars, fvars, pvars, ovars>>

\* any other entry: the two assertions, f = fs.open(local_path, 'w') and
\* m13n = FileMaterialization(fname, len(hashes), f)
MatOpen ==
    /\ mpc = "iter"
    /\ pc[MatThread] = "idle"
    /\ mnext < Len(entries)
    /\ LET e == mnext + 1 IN
       /\ entries[e].kind # "dir"
       /\ mnext' = e
       /\ IF curdir = None \/ ~startswith(entries[e].path, curdir)
            THEN /\ mpc' = "AssertionError"
                 /\ UNCHANGED <<fsnode, files, m13n>>
            ELSE /\ fsnode' = [fsnode EXCEPT ![e] = "file"]
                 /\ files' = [files EXCEPT ![e] =
                                [NoFile EXCEPT !.totblocks = entries[e].nblocks,
                                               !.open = TRUE]]
                 /\ m13n' = e
                 /\ mpc' = IF entries[e].nblocks = 0 THEN "iter" ELSE "comprehension"
    /\ mops' = <<>>
    /\ UNCHANGED <<destIsDir, entries, curdir, block_num, cbargs>>
    /\ UNCHANGED <<qvars, fvars, pvars, ovars>>

\* one iteration of the list comprehension: block_num is bound to the next
\* index and a GetOperation(name=blockname, callback=lambda ...) is built
MatBuildOp ==
    /\ mpc = "comprehension"
    /\ LET e == mnext
           i == Len(mops)
           o == Len(oplist) + 1 IN
       /\ block_num' = i
       /\ oplist' = Append(oplist, [kind |-> "GET", name |-> hashes(e)[i + 1],
                                    data |-> PyNone, callback |-> TRUE,
                                    owner |-> MatThread, epoch |-> epoch[MatThread]])
       /\ result' = Append(result, None)
       /\ wpc' = Append(wpc, "new")
       /\ wbackend' = Append(wbackend, 0)
       /\ mops' = Append(mops, o)
       /\ mpc' = IF i + 1 = entries[e].nblocks THEN "enqueue" ELSE "comprehension"
    /\ UNCHANGED <<destIsDir, entries, mnext, curdir, m13n, fsnode, files, cbargs>>
    /\ UNCHANGED <<producers, limit, max_conc, ops, backends, factoryCalls, failed, waiters,
                   store, pc, cur, status, epoch, before>>
    /\ UNCHANGED <<fvars, pvars, ovars>>

\* for op in ops: sq.enqueue(op), up to enqueue's test of __failed; after
\* the last op the for loop over entryiter goes on
MatEnqueue ==
    /\ mpc = "enqueue"
    /\ pc[MatThread] = "idle"
    /\ IF enqueue_refuses
         THEN /\ mpc' = "OperationHasFailed"
              /\ status' = [status EXCEPT ![MatThread] = "OperationHasFailed"]
              /\ UNCHANGED <<pc, cur, mops>>
         ELSE /\ pc' = [pc EXCEPT ![MatThread] = "enq_lock"]
              /\ cur' = [cur EXCEPT ![MatThread] = Head(mops)]
              /\ mops' = Tail(mops)
              /\ mpc' = IF Tail(mops) = <<>> THEN "iter" ELSE "enqueue"
              /\ UNCHANGED status
    /\ UNCHANGED <<destIsDir, entries, mnext, curdir, m13n, block_num, fsnode, files, cbargs>>
    /\ UNCHANGED <<producers, limit, max_conc, oplist, result, wpc, wbackend, ops, backends,
                   factoryCalls, failed, waiters, store, epoch, before>>
    /\ UNCHANGED <<fvars, pvars, ovars>>

\* The callback lambda bstr: m13n.write_block(bstr, block_num) runs on the
\* worker.  m13n and block_num are variables of materialize: the lambda reads
\* whatever they hold when it runs, first m13n, then block_num.
CallbackLoadM13n(o) ==
    /\ o \in Created
    /\ wpc[o] = "callback"
    /\ cbargs' = [cbargs EXCEPT ![o] = <<m13n, -1>>]
    /\ wpc' = [wpc EXCEPT ![o] = "load_block_num"]
    /\ UNCHANGED <<destIsDir, entries, mpc, mnext, curdir, m13n, block_num, mops, fsnode, files>>
    /\ UNCHANGED <<producers, limit, max_conc, oplist, result, wbackend, ops, backends,
                   factoryCalls, failed, waiters, store, pc, cur, status, epoch, before>>
    /\ UNCHANGED <<fvars, pvars, ovars>>

CallbackLoadBlockNum(o) ==
    /\ o \in Created
    /\ wpc[o] = "load_block_num"
    /\ cbargs' = [cbargs EXCEPT ![o] = <<cbargs[o][1], block_num>>]
    /\ wpc' = [wpc EXCEPT ![o] = "wb_enter"]
    /\ UNCHANGED <<destIsDir, entries, mpc, mnext, curdir, m13n, block_num, mops, fsnode, files>>
    /\ UNCHANGED <<producers, limit, max_conc, oplist, result, wbackend, ops, backends,
                   factoryCalls, failed, waiters, store, pc, cur, status, epoch, before>>
    /\ UNCHANGED <<fvars, pvars, ovars>>

\* write_block(bstr, block_num) on the FileMaterialization the callback of
\* operation o has read: the file cbargs[o][1] and the block number cbargs[o][2]
\* while self.__last_block != block_num - 1: self.__cond.wait()
CBMustWait(o) == files[cbargs[o][1]].last_block # cbargs[o][2] - 1

\* cond.wait(); nothing notifies this condition
CBWait(o) ==
    /\ o \in Created
    /\ wpc[o] = "wb_enter"
    /\ CBMustWait(o)
    /\ wpc' = [wpc EXCEPT ![o] = "wb_waiting"]
    /\ UNCHANGED mvars
    /\ UNCHANGED <<producers, limit, max_conc, oplist, result, wbackend, ops, backends,
                   factoryCalls, failed, waiters, store, pc, cur, status, epoch, before>>
    /\ UNCHANGED <<fvars, pvars, ovars>>

CBPass(o) ==
    /\ o \in Created
    /\ wpc[o] = "wb_enter"
    /\ ~CBMustWait(o)
    /\ wpc' = [wpc EXCEPT ![o] = "wb_write"]
    /\ UNCHANGED mvars
    /\ UNCHANGED <<producers, limit, max_conc, oplist, result, wbackend, ops, backends,
                   factoryCalls, failed, waiters, store, pc, cur, status, epoch, before>>
    /\ UNCHANGED <<fvars, pvars, ovars>>

\* the assertion and self.__fobj.write(bytestr); bytestr is the value of the
\* GET.  The file records which operation's bytes were written as which block.
CBWrite(o) ==
    /\ o \in Created
    /\ wpc[o] = "wb_write"
    /\ LET f == cbargs[o][1] IN
       IF files[f].last_block # cbargs[o][2] - 1
         THEN /\ wpc' = [wpc EXCEPT ![o] = "AssertionError"]
              /\ UNCHANGED files
         ELSE IF files[f].closed
         THEN /\ wpc' = [wpc EXCEPT ![o] = "ValueError"]
              /\ UNCHANGED files
         ELSE /\ files' = [files EXCEPT ![f].written = Append(@, result[o][2])]
              /\ wpc' = [wpc EXCEPT ![o] = "wb_update"]
    /\ UNCHANGED <<destIsDir, entries, mpc, mnext, curdir, m13n, block_num, mops, fsnode, cbargs>>
    /\ UNCHANGED <<producers, limit, max_conc, oplist, result, wbackend, ops, backends,
                   factoryCalls, failed, waiters, store, pc, cur, status, epoch, before>>
    /\ UNCHANGED <<fvars, pvars, ovars>>

\* self.__last_block += 1, the assertion, and flush, fsync and close after
\* the block numbered totblocks - 1; then write_block, the callback and
\* perform return
CBUpdate(o) ==
    /\ o \in Created
    /\ wpc[o] = "wb_update"
    /\ LET f == cbargs[o][1]
           b == cbargs[o][2] IN
       IF files[f].last_block + 1 # b
         THEN /\ files' = [files EXCEPT ![f].last_block = @ + 1]
              /\ wpc' = [wpc EXCEPT ![o] = "AssertionError"]
         ELSE /\ wpc' = [wpc EXCEPT ![o] = "end"]
              /\ IF b = files[f].totblocks - 1
                   THEN files' = [files EXCEPT ![f].last_block = @ + 1,
                                               ![f].fsyncs = @ + 1,
                                               ![f].closed = TRUE]
                   ELSE files' = [files EXCEPT ![f].last_block = @ + 1]
    /\ UNCHANGED <<destIsDir, entries, mpc, mnext, curdir, m13n, block_num, mops, fsnode, cbargs>>
    /\ UNCHANGED <<producers, limit, max_conc, oplist, result, wbackend, ops, backends,
                   factoryCalls, failed, waiters, store, pc, cur, status, epoch, before>>
    /\ UNCHANGED <<fvars, pvars, ovars>>

NextMat ==
    \/ MatStart
    \/ MatDirectory
    \/ MatOpen
    \/ MatBuildOp
    \/ MatEnqueue
    \/ MatReturn
    \/ EnqueueBlock(MatThread)
    \/ EnqueueAdmit(MatThread)
    \/ \E o \in OpIds : Execute(o)
    \/ \E o \in OpIds : RemoveOp(o)
    \/ \E o \in OpIds : CallbackLoadM13n(o)
    \/ \E o \in OpIds : CallbackLoadBlockNum(o)
    \/ \E o \in OpIds : CBWait(o)
    \/ \E o \in OpIds : CBPass(o)
    \/ \E o \in OpIds : CBWrite(o)
    \/ \E o \in OpIds : CBUpdate(o)

SpecMat == InitMat /\ [][NextMat]_vars

\* ------------------------------------------------- persist, commands.persist
\* the bytes files consist of, and the byte strings of at most n bytes
Bytes == {"a", "b"}
ByteStrings(n) == UNION {[1..k -> Bytes] : k \in 0..n}

\* the entries below the root: directories, symlinks and regular files
TreeShapes ==
    {<<"dir", <<>> >>, <<"symlink", <<>> >>} \cup {<<"file", d>> : d \in ByteStrings(MaxBytes)}

RECURSIVE TotalBytes(_)
TotalBytes(t) == IF t = <<>> THEN 0 ELSE Len(Head(t)[2]) + TotalBytes(Tail(t))

Trees ==
    {t \in UNION {[1..k -> TreeShapes] : k \in 0..(MaxTraversal - 1)} :
        TotalBytes(t) <= MaxBytes}

\* the directory commands.persist is called with
SrcPath == <<"s">>

\* traversal.traverse(fs, src_path) of tree t: the root itself first, then
\* the entries below it, each (path, metadata) with the file's bytes
traverse(t) ==
    [e \in 1..(Len(t) + 1) |->
        IF e = 1 THEN [path |-> SrcPath, kind |-> "dir", content |-> <<>>]
        ELSE [path |-> SrcPath \o <<"/", ToString(e)>>, kind |-> t[e - 1][1],
              content |-> t[e - 1][2]]]

\* hasher(block): (algo, hexdigest); distinct byte strings have distinct
\* digests
hasher(block) == <<"sha512", <<"hex">> \o block>>

\* the names block PUTs can have
PersistStore == [n \in {hasher(b)[2] : b \in ByteStrings(MaxBlockSize)} |-> Absent]

\* the traceback of a backend call that raised
BackendError == <<"BackendError", 0>>

\* s[n:]
slice_from(p, n) == SubSeq(p, n + 1, Len(p))

\* a basepath that is never given its '/'
with_slash_never(b) == b

\* if not basepath.endswith('/'): basepath += '/'
with_slash(b) == IF b # <<>> /\ b[Len(b)] = "/" THEN b ELSE b \o <<"/">>

\* the three assertions of _persist_file
path_assertions(path, base) ==
    /\ Len(base) > 0
    /\ startswith(path, with_slash(base))
    /\ Len(path) > Len(with_slash(base))

\* skipblocks = skip_blocks[:]
initial_skipblocks(u) == u

\* the thread that runs commands.persist
PersistThread == "c1"

\* commands.persist up to the first next() on the persist generator: the
\* blocks of the existing manifests, the storage queue, persist's copy of
\* skip_blocks
InitPersist ==
    /\ producers = {PersistThread} /\ limit = 0
    /\ max_conc \in {1, MaxConc}
    /\ InitQueueWith(PersistStore)
    /\ InitFile(0)
    /\ InitMatOff
    /\ InitOthersOff
    /\ debug \in BOOLEAN
    /\ basepath = SrcPath
    /\ \E t \in Trees : traversal = traverse(t)
    /\ blocksize \in {1, MaxBlockSize}
    /\ uploaded \in {<<>>, <<hasher(<<"a">>)>>}
    /\ skipblocks = initial_skipblocks(uploaded)
    /\ ppc = "iter"
    /\ pnext = 0
    /\ fpos = 0
    /\ parts = <<>>
    /\ phashes = <<>>
    /\ mf = <<>>
    /\ mf_lines = <<>>
    /\ mstore = <<>>

\* for path, meta in traversal: _persist_file up to its first read.  A
\* symlink or directory is yielded at once, with no hashes.
PersistEntry ==
    /\ ppc = "iter"
    /\ pc[PersistThread] = "idle"
    /\ pnext < Len(traversal)
    /\ LET e == pnext + 1
           path == traversal[e].path IN
       /\ pnext' = e
       /\ IF debug /\ ~path_assertions(path, basepath)
            THEN /\ ppc' = "AssertionError"
                 /\ UNCHANGED mf
            ELSE IF traversal[e].kind \in {"symlink", "dir"}
            THEN /\ mf' = Append(mf, [path |-> slice_from(path, Len(with_slash(basepath))),
                                      kind |-> traversal[e].kind, hashes |-> <<>>])
                 /\ UNCHANGED ppc
            ELSE /\ ppc' = "read"
                 /\ UNCHANGED mf
    /\ fpos' = 0
    /\ parts' = <<>>
    /\ phashes' = <<>>
    /\ UNCHANGED <<debug, basepath, traversal, blocksize, uploaded, skipblocks, mf_lines, mstore>>
    /\ UNCHANGED <<qvars, fvars, mvars, ovars>>

\* _next_block that returns what its first read returned
read_more_never(sofar) == sofar = 0

\* while sofar < blocksize
read_more(sofar) == sofar < blocksize

\* one iteration of _next_block's loop: part = f.read(blocksize - sofar)
\* returns at least one and at most the requested number of the remaining
\* bytes, or nothing at the end of the file
PersistRead ==
    /\ ppc = "read"
    /\ pc[PersistThread] = "idle"
    /\ LET content == traversal[pnext].content
           remaining == Len(content) - fpos IN
       IF ~read_more(Len(parts)) \/ remaining = 0
         THEN /\ ppc' = "block"
              /\ UNCHANGED <<fpos, parts>>
         ELSE \E k \in 1..remaining :
                /\ k <= blocksize - Len(parts)
                /\ parts' = parts \o SubSeq(content, fpos + 1, fpos + k)
                /\ fpos' = fpos + k
                /\ UNCHANGED ppc
    /\ UNCHANGED <<debug, basepath, traversal, blocksize, uploaded, skipblocks, pnext, phashes,
                   mf, mf_lines, mstore>>
    /\ UNCHANGED <<qvars, fvars, mvars, ovars>>

\* _persist_file that puts every block
not_in_skip_blocks_always(h, skip) == TRUE

\* if (algo, hash) not in skip_blocks
not_in_skip_blocks(h, skip) == \A i \in 1..Len(skip) : skip[i] # h

\* _next_block has returned block.  An empty block ends the file: its entry
\* is yielded.  Otherwise the block is hashed and, unless its hash is in
\* skip_blocks, sq.enqueue(PutOperation(name=hash, data=block)) is called, up
\* to enqueue's test of __failed, and skip_blocks.append((algo, hash)) follows
\* the enqueue (nothing else reads skip_blocks in between).
PersistBlock ==
    /\ ppc = "block"
    /\ pc[PersistThread] = "idle"
    /\ LET block == parts
           h == hasher(block)
           o == Len(oplist) + 1
           path == traversal[pnext].path IN
       IF Len(block) = 0
         THEN /\ mf' = Append(mf, [path |-> slice_from(path, Len(with_slash(basepath))),
                                   kind |-> "file", hashes |-> phashes])
              /\ ppc' = "iter"
              /\ UNCHANGED <<phashes, skipblocks, parts, oplist, result, wpc, wbackend, pc, cur,
                             status>>
         ELSE
           /\ phashes' = Append(phashes, h)
           /\ UNCHANGED mf
           /\ IF not_in_skip_blocks(h, skipblocks)
                THEN /\ oplist' = Append(oplist, [kind |-> "PUT", name |-> h[2], data |-> block,
                                                  callback |-> FALSE, owner |-> PersistThread,
                                                  epoch |-> epoch[PersistThread]])
                     /\ result' = Append(result, None)
                     /\ wpc' = Append(wpc, "new")
                     /\ wbackend' = Append(wbackend, 0)
                     /\ IF enqueue_refuses
                          THEN /\ ppc' = "OperationHasFailed"
                               /\ status' = [status EXCEPT ![PersistThread] = "OperationHasFailed"]
                               /\ UNCHANGED <<pc, cur, skipblocks, parts>>
                          ELSE /\ pc' = [pc EXCEPT ![PersistThread] = "enq_lock"]
                               /\ cur' = [cur EXCEPT ![PersistThread] = o]
                               /\ skipblocks' = Append(skipblocks, h)
                               /\ parts' = <<>>
                               /\ ppc' = "read"
                               /\ UNCHANGED status
                ELSE /\ parts' = <<>>
                     /\ ppc' = "read"
                     /\ UNCHANGED <<skipblocks, oplist, result, wpc, wbackend, pc, cur, status>>
    /\ UNCHANGED <<debug, basepath, traversal, blocksize, uploaded, pnext, fpos, mf_lines, mstore>>
    /\ UNCHANGED <<producers, limit, max_conc, ops, backends, factoryCalls, failed, waiters,
                   store, epoch, before>>
    /\ UNCHANGED <<fvars, mvars, ovars>>

\* the traversal is exhausted: sq.wait() is called
PersistWaitCall ==
    /\ ppc = "iter"
    /\ pc[PersistThread] = "idle"
    /\ pnext = Len(traversal)
    /\ ppc' = "wait"
    /\ pc' = [pc EXCEPT ![PersistThread] = "wait_lock"]
    /\ before' = [before EXCEPT ![PersistThread] = Enqueued]
    /\ UNCHANGED <<debug, basepath, traversal, blocksize, uploaded, skipblocks, pnext, fpos, parts,
                   phashes, mf, mf_lines, mstore>>
    /\ UNCHANGED <<producers, limit, max_conc, oplist, result, wpc, wbackend, ops, backends,
                   factoryCalls, failed, waiters, store, cur, status, epoch>>
    /\ UNCHANGED <<fvars, mvars, ovars>>

\* sq.wait() has returned or raised.  If it returned, the generator ends,
\* list() returns mf and write_manifest(be, label, mf) is called.
PersistWaited ==
    /\ ppc = "wait"
    /\ pc[PersistThread] = "idle"
    /\ ppc' = IF status[PersistThread] = "OperationHasFailed"
                THEN "OperationHasFailed" ELSE "write_manifest"
    /\ UNCHANGED <<debug, basepath, traversal, blocksize, uploaded, skipblocks, pnext, fpos, parts,
                   phashes, mf, mf_lines, mstore>>
    /\ UNCHANGED <<qvars, fvars, mvars, ovars>>

\* write_manifest: for (path, metadata, hashes) in entry_generator:
\* mf_lines.append(...)
WriteManifestLine ==
    /\ ppc = "write_manifest"
    /\ Len(mf_lines) < Len(mf)
    /\ mf_lines' = Append(mf_lines, mf[Len(mf_lines) + 1])
    /\ UNCHANGED <<debug, basepath, traversal, blocksize, uploaded, skipblocks, ppc, pnext, fpos,
                   parts, phashes, mf, mstore>>
    /\ UNCHANGED <<qvars, fvars, mvars, ovars>>

\* write_manifest: backend.put(name, '\n'.join(mf_lines)) after the loop
WriteManifestPut ==
    /\ ppc = "write_manifest"
    /\ Len(mf_lines) = Len(mf)
    /\ mstore' = Append(mstore, mf_lines)
    /\ ppc' = "done"
    /\ UNCHANGED <<debug, basepath, traversal, blocksize, uploaded, skipblocks, pnext, fpos, parts,
                   phashes, mf, mf_lines>>
    /\ UNCHANGED <<qvars, fvars, mvars, ovars>>

\* the backend's put raises (the block store is a directory or S3): the
\* except branch of perform records (False, traceback)
ExecuteRaises(o) ==
    /\ o \in Created
    /\ wpc[o] = "run"
    /\ result' = [result EXCEPT ![o] = <<FALSE, BackendError>>]
    /\ wpc' = [wpc EXCEPT ![o] = "notify"]
    /\ UNCHANGED <<producers, limit, max_conc, oplist, wbackend, ops, backends, factoryCalls, failed,
                   waiters, store, pc, cur, status, epoch, before>>
    /\ UNCHANGED <<fvars, mvars, pvars, ovars>>

NextPersist ==
    \/ PersistEntry
    \/ PersistRead
    \/ PersistBlock
    \/ PersistWaitCall
    \/ PersistWaited
    \/ WriteManifestLine
    \/ WriteManifestPut
    \/ EnqueueBlock(PersistThread)
    \/ EnqueueAdmit(PersistThread)
    \/ WaitBlock(PersistThread)
    \/ WaitDrained(PersistThread)
    \/ WaitReturn(PersistThread)
    \/ \E o \in OpIds : Execute(o)
    \/ \E o \in OpIds : ExecuteRaises(o)
    \/ \E o \in OpIds : RemoveOp(o)

SpecPersist == InitPersist /\ [][NextPersist]_vars

\* mode_to_str that writes a set special bit as a plain x or -
exec_char_plain(xbit, special, lower, upper) ==
    IF xbit THEN "x" ELSE "-"

\* the character for an execute bit and its setuid/setgid/sticky bit
exec_char(xbit, special, lower, upper) ==
    IF xbit THEN (IF special THEN lower ELSE "x")
            ELSE (IF special THEN upper ELSE "-")

\* the assertion of mode_to_str: one of the file type flags is set
mode_to_str_error(d) ==
    IF \/ d.is_regular \/ d.is_block_device \/ d.is_character_device
       \/ d.is_directory \/ d.is_symlink \/ d.is_fifo
    THEN "none" ELSE "AssertionError"

\* mode_to_str(propdict)
mode_to_str(d) ==
    <<IF d.is_regular THEN "-"
      ELSE IF d.is_block_device THEN "b"
      ELSE IF d.is_character_device THEN "c"
      ELSE IF d.is_directory THEN "d"
      ELSE IF d.is_symlink THEN "l"
      ELSE "p",
      IF d.user_read THEN "r" ELSE "-",
      IF d.user_write THEN "w" ELSE "-",
      exec_char(d.user_execute, d.is_setuid, "s", "S"),
      IF d.group_read THEN "r" ELSE "-",
      IF d.group_write THEN "w" ELSE "-",
      exec_char(d.group_execute, d.is_setgid, "s", "S"),
      IF d.other_read THEN "r" ELSE "-",
      IF d.other_write THEN "w" ELSE "-",
      exec_char(d.other_execute, d.is_sticky, "t", "T")>>

\* the assertions of str_to_mode
str_to_mode_error(s) ==
    IF /\ Len(s) = 10
       /\ s[1] \in {"-", "b", "c", "d", "l", "p"}
       /\ s[2] \in {"r", "-"} /\ s[3] \in {"w", "-"} /\ s[4] \in {"x", "-", "s", "S"}
       /\ s[5] \in {"r", "-"} /\ s[6] \in {"w", "-"} /\ s[7] \in {"x", "-", "s", "S"}
       /\ s[8] \in {"r", "-"} /\ s[9] \in {"w", "-"} /\ s[10] \in {"x", "-", "t", "T"}
    THEN "none" ELSE "AssertionError"

\* str_to_mode(s)
str_to_mode(s) ==
    [is_regular |-> s[1] = "-", is_block_device |-> s[1] = "b",
     is_character_device |-> s[1] = "c", is_directory |-> s[1] = "d",
     is_symlink |-> s[1] = "l", is_fifo |-> s[1] = "p",
     user_read |-> s[2] = "r", user_write |-> s[3] = "w",
     user_execute |-> s[4] \in {"x", "s"}, is_setuid |-> s[4] \in {"s", "S"},
     group_read |-> s[5] = "r", group_write |-> s[6] = "w",
     group_execute |-> s[7] \in {"x", "s"}, is_setgid |-> s[7] \in {"s", "S"},
     other_read |-> s[8] = "r", other_write |-> s[9] = "w",
     other_execute |-> s[10] \in {"x", "t"}, is_sticky |-> s[10] \in {"t", "T"}]

\* the first call of a run returns val or raises err; the variables of the
\* other components are left alone
Convert(err, val) ==
    /\ cpc = "start"
    /\ cerr' = err
    /\ cmid' = IF err = "none" THEN val ELSE None
    /\ cpc' = IF err = "none" THEN "converted" ELSE "raised"
    /\ UNCHANGED <<cfun, cin, cout>>
    /\ UNCHANGED <<qvars, fvars, mvars, pvars, bvars, dvars>>

\* the second call of a run, on what the first returned
ConvertBack(err, val) ==
    /\ cpc = "converted"
    /\ cerr' = err
    /\ cout' = IF err = "none" THEN val ELSE None
    /\ cpc' = IF err = "none" THEN "end" ELSE "raised"
    /\ UNCHANGED <<cfun, cin, cmid>>
    /\ UNCHANGED <<qvars, fvars, mvars, pvars, bvars, dvars>>

\* mode_to_str is applied: to the argument, or to what str_to_mode returned
ModeToStr ==
    \/ cfun = "mode_to_str" /\ Convert(mode_to_str_error(cin), mode_to_str(cin))
    \/ cfun = "str_to_mode" /\ ConvertBack(mode_to_str_error(cmid), mode_to_str(cmid))

\* str_to_mode is applied: to the argument, or to what mode_to_str returned
StrToMode ==
    \/ cfun = "str_to_mode" /\ Convert(str_to_mode_error(cin), str_to_mode(cin))
    \/ cfun = "mode_to_str" /\ ConvertBack(str_to_mode_error(cmid), str_to_mode(cmid))

\* ------------------------------------------------------------------ spencode
\* A character string is a sequence of characters: the printable ASCII
\* characters as themselves, and "U+E5" for the letter a with ring above.  A
\* byte string is a sequence of byte values.
\* the characters with the codes 32 to 126, in order ("U+60" is the grave
\* accent)
Printable ==
    <<
       " ", "!", "\"", "#", "$", "%", "&", "'", "(", ")", "*", "+", ",", "-", ".", "/",
       "0", "1", "2", "3", "4", "5", "6", "7", "8", "9", ":", ";", "<", "=", ">", "?",
       "@", "A", "B", "C", "D", "E", "F", "G", "H", "I", "J", "K", "L", "M", "N", "O",
       "P", "Q", "R", "S", "T", "U", "V", "W", "X", "Y", "Z", "[", "\\", "]", "^", "_",
       "U+60", "a", "b", "c", "d", "e", "f", "g", "h", "i", "j", "k", "l", "m", "n", "o",
       "p", "q", "r", "s", "t", "u", "v", "w", "x", "y", "z", "{", "|", "}", "~"
    >>

\* ord() and chr() on these
Ord(c) == 31 + CHOOSE i \in 1..Len(Printable) : Printable[i] = c
Chr(b) == Printable[b - 31]

\* a _safechars that holds the '|' too
SafeChars_with_pipe ==
    {
     "a", "b", "c", "d", "e", "f", "g", "h", "i", "j", "k", "l", "m", "n", "o", "p",
     "q", "r", "s", "t", "u", "v", "x", "y", "z", "A", "B", "C", "D", "E", "F", "G",
     "H", "I", "J", "K", "L", "M", "N", "O", "P", "Q", "R", "S", "T", "U", "V", "X",
     "Y", "Z", "0", "1", "2", "3", "4", "5", "6", "7", "8", "9", "_", "-", ":", ".",
     "|"
    }

\* spencode._safechars
SafeChars ==
    {
     "a", "b", "c", "d", "e", "f", "g", "h", "i", "j", "k", "l", "m", "n", "o", "p",
     "q", "r", "s", "t", "u", "v", "x", "y", "z", "A", "B", "C", "D", "E", "F", "G",
     "H", "I", "J", "K", "L", "M", "N", "O", "P", "Q", "R", "S", "T", "U", "V", "X",
     "Y", "Z", "0", "1", "2", "3", "4", "5", "6", "7", "8", "9", "_", "-", ":", "."
    }

\* the digits of '%02X'
HexDigits == <<"0", "1", "2", "3", "4", "5", "6", "7", "8", "9", "A", "B", "C", "D", "E", "F">>

\* a _safechars that holds the '%' too
is_safe_or_percent(b) == b \in 32..126 /\ Chr(b) \in SafeChars \cup {"%"}

\* c in _safechars, for the character with byte value b
is_safe(b) == b \in 32..126 /\ Chr(b) \in SafeChars

\* sep.join(strs)
RECURSIVE join(_, _)
join(sep, strs) ==
    IF Len(strs) = 0 THEN <<>>
    ELSE IF Len(strs) = 1 THEN strs[1]
    ELSE strs[1] \o sep \o join(sep, Tail(strs))

\* s.split(sep) for a separator of one character
RECURSIVE split(_, _)
split(str, sep) ==
    IF \A i \in 1..Len(str) : str[i] # sep THEN <<str>>
    ELSE LET i == CHOOSE j \in 1..Len(str) :
                    str[j] = sep /\ \A k \in 1..(j - 1) : str[k] # sep IN
         <<SubSeq(str, 1, i - 1)>> \o split(SubSeq(str, i + 1, Len(str)), sep)

\* spencode(s): s.encode('utf-8'), then ''.join of _enc_map[c] for each byte,
\* where _enc_map[c] is c if it is safe and '%%%02X' % ord(c) if not, in quotes
spencode(str) ==
    LET bs == join(<<>>, [i \in 1..Len(str) |->
                             IF str[i] = "U+E5" THEN <<195, 165>> ELSE <<Ord(str[i])>>])
        enc(b) == IF is_safe(b) THEN <<Chr(b)>>
                  ELSE <<"%", HexDigits[(b \div 16) + 1], HexDigits[(b % 16) + 1]>> IN
    <<"'">> \o join(<<>>, [i \in 1..Len(bs) |-> enc(bs[i])]) \o <<"'">>

\* the assertion and the int(..., 16) of _urldec
urldec_error(str) ==
    LET rest == Tail(split(str, "%")) IN
    IF \E i \in 1..Len(rest) : Len(rest[i]) < 2 THEN "AssertionError"
    ELSE IF \E i \in 1..Len(rest) : \E j \in 1..2 : \A h \in 1..16 : HexDigits[h] # rest[i][j]
      THEN "ValueError"
    ELSE "none"

\* _urldec(s): the bytes of the first part of s.split('%'), and for every
\* other part chr(int(part[0:2], 16)) and the bytes of part[2:]
urldec(str) ==
    LET ps == split(str, "%")
        ords(t) == [i \in 1..Len(t) |-> Ord(t[i])]
        val(c) == (CHOOSE i \in 1..16 : HexDigits[i] = c) - 1 IN
    ords(ps[1])
      \o join(<<>>, [i \in 1..(Len(ps) - 1) |->
                        <<16 * val(ps[i + 1][1]) + val(ps[i + 1][2])>>
                          \o ords(SubSeq(ps[i + 1], 3, Len(ps[i + 1])))])

\* the assertions of spdecode and the exceptions of what it calls; the bytes
\* are UTF-8 if they are ASCII characters and the two bytes of U+E5
spdecode_error(str) ==
    LET inner == SubSeq(str, 2, Len(str) - 1)
        bs == urldec(inner) IN
    IF Len(str) < 2 \/ str[1] # "'" \/ str[Len(str)] # "'" THEN "AssertionError"
    ELSE IF urldec_error(inner) # "none" THEN urldec_error(inner)
    ELSE IF \E i \in 1..Len(bs) :
              ~ \/ bs[i] \in 32..126
                \/ bs[i] = 195 /\ i < Len(bs) /\ bs[i + 1] = 165
                \/ bs[i] = 165 /\ i > 1 /\ bs[i - 1] = 195
      THEN "UnicodeDecodeError"
    ELSE "none"

\* spdecode(s): _urldec(s[1:len(s) - 1]).decode('utf-8')
spdecode(str) ==
    LET bs == SelectSeq(urldec(SubSeq(str, 2, Len(str) - 1)), LAMBDA b : b # 165) IN
    [i \in 1..Len(bs) |-> IF bs[i] = 195 THEN "U+E5" ELSE Chr(bs[i])]

Spencode == cfun = "spencode" /\ Convert("none", spencode(cin))

Spdecode == cfun = "spencode" /\ ConvertBack(spdecode_error(cmid), spdecode(cmid))

\* ------------------------------------------------------------------- Next
Next ==
    \/ \E c \in Clients, sh \in OpShapes, n \in Names :
         EnqueueCall(c, sh[1], n, sh[2])
    \/ \E c \in Clients : EnqueueBlock(c)
    \/ \E c \in Clients : EnqueueAdmit(c)
    \/ \E o \in OpIds : Execute(o)
    \/ \E o \in OpIds : RemoveOp(o)
    \/ \E o \in OpIds : CallbackReturn(o)
    \/ \E c \in Clients : WaitCall(c)
    \/ \E c \in Clients : BarrierCall(c)
    \/ \E c \in Clients : WaitBlock(c)
    \/ \E c \in Clients : WaitDrained(c)
    \/ \E c \in Clients : WaitReturn(c)

Spec == Init /\ [][Next]_vars

\* Worker threads are scheduled by the operating system and every backend
\* call terminates: a worker that can take its next step eventually does.
\* Nothing is assumed about the clients or about how long a callback blocks.
InitFair ==
    /\ producers = {"c1"} /\ limit = MaxOpsFair
    /\ max_conc \in 1..MaxConc
    /\ InitQueue
    /\ InitFile(0)
    /\ InitMatOff
    /\ InitPersistOff
    /\ InitOthersOff

FairSpec ==
    /\ InitFair
    /\ [][Next]_vars
    /\ \A o \in OpIds : WF_vars(Execute(o)) /\ WF_vars(RemoveOp(o))

\* ------------------------------------------------------------- properties
Failure(o) == is_done(o) /\ ~result[o][1]
Success(o) == is_done(o) /\ result[o][1]
ActiveCallbacks == {o \in Created : wpc[o] = "callback"}
AtWaitReturn(c) == pc[c] = "wait_check"

\* C1: the in-flight set never holds more than max_conc operations, and an
\* enqueue that finds max_conc operations in flight does not add its
\* operation in that step (it blocks until one has been removed).
C1_OpsBound ==
    /\ [](Cardinality(ops) <= max_conc)
    /\ [][\A c \in Clients :
            (cur[c] # 0 /\ Cardinality(ops) >= max_conc)
              => (cur[c] \notin ops' /\ pc'[c] \in {"enq_lock", "enq_wait", "enq_woken"})]_vars

\* an enqueue blocked on a full queue
C1_Witness ==
    \E c \in Clients :
        /\ pc[c] = "enq_wait"
        /\ max_conc = MaxConc
        /\ Cardinality(ops) = max_conc

\* C2: at most max_conc completion callbacks are active (entered and not yet
\* returned) at the same time.
C2_ActiveCallbacksBounded == Cardinality(ActiveCallbacks) <= max_conc

\* C3 as stated: when wait() is about to return or raise, no operation is in
\* flight and every operation enqueued before the call is done.
C3_NoOpInFlightAtReturn ==
    \A c \in Clients :
        AtWaitReturn(c) =>
            /\ ops = {}
            /\ \A o \in before[c] : is_done(o) /\ succeeded(o) \in BOOLEAN

\* C3 amended: when wait() is about to return or raise, every operation
\* enqueued before the call is out of the in-flight set and done, so that
\* succeeded() can be queried on it.
C3_EnqueuedBeforeAreDone ==
    \A c \in Clients :
        AtWaitReturn(c) =>
            \A o \in before[c] : o \notin ops /\ is_done(o) /\ succeeded(o) \in BOOLEAN

\* a wait() that blocked on two operations in flight is about to return
C3_Witness ==
    \E c \in Clients :
        /\ AtWaitReturn(c)
        /\ Cardinality(before[c]) >= 2
        /\ \E o \in before[c] : oplist[o].owner = c

OpsOn(n) == {o \in Created : oplist[o].name = n}
Precedes(o1, o2) ==
    /\ oplist[o1].owner = oplist[o2].owner
    /\ oplist[o1].epoch < oplist[o2].epoch

\* C8: an operation enqueued before a barrier is done and out of the
\* in-flight set before an operation the same thread enqueues after the
\* barrier is started; so a GET(x) enqueued after PUT(x,d) and a barrier
\* yields d, also when a DELETE(x) follows the GET after another barrier
\* (the other operations on x being GETs or operations enqueued after a
\* barrier that follows the GET).
C8_BarrierOrdering ==
    /\ \A o1, o2 \in Created :
         (Precedes(o1, o2) /\ wpc[o2] # "new") => (is_done(o1) /\ o1 \notin ops)
    /\ \A p, g \in Created :
         ( /\ oplist[p].kind = "PUT" /\ oplist[g].kind = "GET"
           /\ oplist[p].name = oplist[g].name
           /\ Precedes(p, g)
           /\ \A o \in OpsOn(oplist[g].name) \ {p, g} :
                oplist[o].kind = "GET" \/ Precedes(g, o)
           /\ is_done(g) )
         => result[g] = <<TRUE, oplist[p].data>>

\* PUT; barrier; GET; barrier; DELETE by one thread, all done
C8_Witness ==
    /\ Len(oplist) >= 3
    /\ oplist[1].kind = "PUT" /\ oplist[2].kind = "GET" /\ oplist[3].kind = "DEL"
    /\ Precedes(1, 2) /\ Precedes(2, 3)
    /\ result[2] = <<TRUE, DataOf(1)>>
    /\ Success(3)

\* the concatenation of the first n blocks
RECURSIVE ConcatBlocks(_)
ConcatBlocks(n) == IF n = 0 THEN <<>> ELSE ConcatBlocks(n - 1) \o blocks[n - 1]

AllReturned == \A i \in 0..(totblocks - 1) : wbpc[i] = "done"

C10_WaitersWokenAndReturn ==
    /\ [][\A i \in 0..(totblocks - 1) :
            (wbpc[i] = "waiting" /\ last_block # i - 1 /\ last_block' = i - 1)
               => wbpc'[i] # "waiting"]_vars
    /\ []((\A i \in 0..(totblocks - 1) : wbpc[i] \in {"done", "waiting"}) => AllReturned)

Writers(e) == {o \in Created : wpc[o] \in {"wb_write", "wb_update"} /\ cbargs[o][1] = e}

\* C12: at any time during materialization every open destination file is
\* being written by at most one callback, and that callback writes the block
\* with index last_block + 1.
C12_SingleWriterPerFile ==
    \A e \in 1..Len(entries) :
        /\ Cardinality(Writers(e)) <= 1
        /\ \A o \in Writers(e) :
             wpc[o] = "wb_write" => cbargs[o][2] = files[e].last_block + 1

\* materialize has returned or raised and no worker thread can take a step
MatQuiescent ==
    /\ mpc \in {"returned", "DestinationPathNotDirectory", "AssertionError",
                "OperationHasFailed"}
    /\ \A o \in Created : wpc[o] \in {"new", "end", "wb_waiting", "AssertionError",
                                       "ValueError"}

\* the blocks of entry e in the order of its hashes
ExpectedContent(e) == [i \in 1..entries[e].nblocks |-> BlockData(e, i - 1)]

\* C13: materializing a manifest that holds one regular file with n >= 1
\* blocks through a queue of any max_conc ends with the destination file
\* holding the n blocks in order and fsynced exactly once (the scenario's
\* 10 blocks and 4 workers, within the bounds).
C13_FileAssembledInOrder ==
    (/\ destIsDir
     /\ Len(entries) = 2
     /\ entries[1].kind = "dir"
     /\ entries[2].kind = "file" /\ entries[2].nblocks >= 1
     /\ MatQuiescent)
        => /\ mpc = "returned"
           /\ files[2].written = ExpectedContent(2)
           /\ files[2].fsyncs = 1
           /\ files[2].closed

\* C14: when materialize returns, every GET it enqueued has completed and
\* every block of every regular file of the manifest has been written.
C14_ReturnsAfterAllWritten ==
    mpc = "returned" =>
        /\ \A o \in Created : is_done(o)
        /\ \A e \in 1..Len(entries) :
             entries[e].kind = "file" => Len(files[e].written) = entries[e].nblocks

\* C15: if the destination is not a directory, materialize raises
\* DestinationPathNotDirectory in its first step, and no entry is consumed,
\* nothing is created in the file system and no operation is constructed or
\* enqueued, before or after.
C15_DestinationChecked ==
    (mpc # "off" /\ ~destIsDir) =>
        /\ mpc \in {"start", "DestinationPathNotDirectory"}
        /\ mnext = 0
        /\ \A e \in 1..Len(entries) : fsnode[e] = "none" /\ ~files[e].open
        /\ oplist = <<>> /\ ops = {}

\* the exception has been raised for a manifest with a directory and a file
C15_Witness ==
    /\ mpc = "DestinationPathNotDirectory"
    /\ Len(entries) >= 2
    /\ entries[1].kind = "dir"
    /\ entries[2].kind = "file" /\ entries[2].nblocks >= 1

\* C16: once materialize has processed a symlink entry, the file system
\* holds a symbolic link, and not a regular file, at its path.
C16_SymlinkCreated ==
    \A e \in 1..Len(entries) :
        (entries[e].kind = "symlink" /\ e <= mnext /\ mpc # "AssertionError")
            => fsnode[e] = "symlink"

\* the block PUTs constructed so far, by name
PutsNamed(n) == {o \in Created : oplist[o].kind = "PUT" /\ oplist[o].name = n}

\* a byte string cut into blocks of B bytes, the last one possibly shorter
RECURSIVE Chunks(_, _)
Chunks(d, B) ==
    IF d = <<>> THEN <<>>
    ELSE IF Len(d) <= B THEN <<d>>
    ELSE <<SubSeq(d, 1, B)>> \o Chunks(SubSeq(d, B + 1, Len(d)), B)

\* the digests of the blocks of the i-th traversal entry, in file order
ExpectedHashes(i) ==
    LET ch == Chunks(traversal[i].content, blocksize) IN
    [j \in 1..Len(ch) |-> hasher(ch[j])]

CeilDiv(L, B) == (L + B - 1) \div B

\* C17: within one persist run at most one PUT is constructed per digest, no
\* PUT is constructed for a digest in the skip_blocks passed in, and every
\* yielded entry still lists the digest of every one of its blocks.
C17_OnePutPerDigest ==
    /\ \A o1, o2 \in Created : oplist[o1].name = oplist[o2].name => o1 = o2
    /\ \A o \in Created : \A i \in 1..Len(uploaded) : uploaded[i][2] # oplist[o].name
    /\ \A i \in 1..Len(mf) : mf[i].hashes = ExpectedHashes(i)

\* two yielded files hold the same block, which was put once, and a yielded
\* file holds a block of the skip_blocks passed in, which was not put
C17_Witness ==
    /\ \E i, j \in 1..Len(mf) :
         /\ i < j
         /\ mf[i].hashes # <<>> /\ mf[j].hashes # <<>>
         /\ mf[i].hashes[1] = mf[j].hashes[Len(mf[j].hashes)]
         /\ Cardinality(PutsNamed(mf[i].hashes[1][2])) = 1
    /\ \E i \in 1..Len(mf) : \E k \in 1..Len(mf[i].hashes) :
         /\ uploaded # <<>>
         /\ mf[i].hashes[k] = uploaded[1]
         /\ PutsNamed(uploaded[1][2]) = {}

\* C18: a yielded regular file of L bytes lists ceil(L/blocksize) digests,
\* those of its consecutive blocks of blocksize bytes (the last one of 1 to
\* blocksize bytes), however the reads were split; every PUT carries between
\* 1 and blocksize bytes and is named by their digest; directories, symlinks
\* and empty files list no digest, and every PUT is a block of a file.
C18_Chunking ==
    /\ \A i \in 1..Len(mf) :
         /\ Len(mf[i].hashes) = CeilDiv(Len(traversal[i].content), blocksize)
         /\ mf[i].hashes = ExpectedHashes(i)
         /\ mf[i].kind # "file" => mf[i].hashes = <<>>
    /\ (ppc \in {"read", "block"} /\ pc[PersistThread] = "idle") =>
         phashes = SubSeq(ExpectedHashes(pnext), 1, Len(phashes))
    /\ \A o \in Created :
         /\ oplist[o].kind = "PUT"
         /\ Len(oplist[o].data) \in 1..blocksize
         /\ oplist[o].name = hasher(oplist[o].data)[2]
         /\ \E i \in 1..pnext : \E j \in 1..Len(ExpectedHashes(i)) :
              /\ traversal[i].kind = "file"
              /\ ExpectedHashes(i)[j][2] = oplist[o].name

\* a file of more bytes than a block, and not a multiple of it, has been
\* yielded together with a directory
C18_Witness ==
    \E i, k \in 1..Len(mf) :
        /\ mf[i].kind = "file"
        /\ Len(traversal[i].content) = MaxBytes
        /\ blocksize = MaxBlockSize
        /\ Len(mf[i].hashes) = CeilDiv(MaxBytes, MaxBlockSize)
        /\ mf[k].kind = "dir"

\* C19: the manifest is put only after the traversal has been exhausted and
\* the final wait() has returned normally: no operation is in flight and
\* every block PUT of the run has completed successfully.
C19_ManifestAfterBlocks ==
    /\ [](mstore # <<>> =>
            /\ pnext = Len(traversal)
            /\ ops = {}
            /\ status[PersistThread] = "ok"
            /\ \A o \in Created : Success(o))
    /\ [][mstore' # mstore =>
            /\ pnext = Len(traversal) /\ Len(mf) = Len(traversal)
            /\ ops = {}
            /\ \A o \in Created : Success(o)]_vars

\* a manifest has been put in a run that put two blocks
C19_Witness ==
    /\ mstore # <<>>
    /\ Len(oplist) >= 2

\* the thread running commands.persist has ended and no worker can step
PersistQuiescent ==
    /\ ppc \in {"done", "AssertionError", "OperationHasFailed"}
    /\ \A o \in Created : wpc[o] \in {"new", "end"}

propnames ==
    {"is_directory", "is_character_device", "is_block_device", "is_regular", "is_fifo",
     "is_symlink", "is_setuid", "is_setgid", "is_sticky", "user_read", "user_write",
     "user_execute", "group_read", "group_write", "group_execute", "other_read",
     "other_write", "other_execute", "uid", "gid", "size", "atime", "mtime", "ctime"}

\* what os.lstat and os.readlink say of a path: a mode, the numbers, and the
\* target if it is a symlink
StatInfos ==
    {[mode |-> str_to_mode(m), uid |-> u, gid |-> 6, size |-> sz, atime |-> 8, mtime |-> 9,
      ctime |-> 10, readlink |-> <<"t">>] :
        m \in {<<"-", "r", "w", "x", "r", "-", "x", "r", "-", "x">>,
               <<"d", "r", "w", "s", "r", "-", "S", "-", "-", "T">>,
               <<"l", "r", "w", "x", "r", "w", "x", "r", "w", "x">>},
        u \in {0, MaxId}, sz \in {7, 10 * MaxId + 5}}

\* the props dict LocalFileSystem.lstat builds
lstat_props(st) ==
    [k \in (propnames \cup (IF st.mode.is_symlink THEN {"symlink_value"} ELSE {})) |->
        IF k = "symlink_value" THEN st.readlink
        ELSE IF k \in DOMAIN st.mode THEN st.mode[k]
        ELSE st[k]]

\* FileMetaData(props): every property is None unless props gives it
FileMetaData(props) ==
    [k \in (propnames \cup DOMAIN props) |-> IF k \in DOMAIN props THEN props[k] ELSE PyNone]

\* '%d' % n
RECURSIVE decimal(_)
decimal(n) ==
    IF n < 0 THEN <<"-">> \o decimal(0 - n)
    ELSE IF n < 10 THEN <<HexDigits[n + 1]>>
    ELSE decimal(n \div 10) \o <<HexDigits[(n % 10) + 1]>>

\* c is one of '0' to '9'
IsDigit(c) == \E i \in 1..10 : HexDigits[i] = c

\* int(s), for digits after an optional sign
int(str) ==
    LET RECURSIVE digits(_)
        digits(ds) ==
            IF ds = <<>> THEN 0
            ELSE 10 * digits(SubSeq(ds, 1, Len(ds) - 1))
                   + (CHOOSE i \in 1..10 : HexDigits[i] = ds[Len(ds)]) - 1 IN
    IF Head(str) = "-" THEN 0 - digits(Tail(str))
    ELSE IF Head(str) = "+" THEN digits(Tail(str))
    ELSE digits(str)

\* s.strip(), the whitespace of the texts modelled being ' ' and '\n'
RECURSIVE strip(_)
strip(str) ==
    IF str = <<>> THEN str
    ELSE IF Head(str) \in {" ", "\n"} THEN strip(Tail(str))
    ELSE IF str[Len(str)] \in {" ", "\n"} THEN strip(SubSeq(str, 1, Len(str) - 1))
    ELSE str

\* s.split(): the runs of characters that are not whitespace
RECURSIVE split_ws(_)
split_ws(str) ==
    IF strip(str) = <<>> THEN <<>>
    ELSE LET t == strip(str)
             n == IF \A i \in 1..Len(t) : t[i] \notin {" ", "\n"} THEN Len(t)
                  ELSE (CHOOSE j \in 1..Len(t) :
                          t[j] \in {" ", "\n"} /\ \A k \in 1..(j - 1) : t[k] \notin {" ", "\n"})
                       - 1 IN
         <<SubSeq(t, 1, n)>> \o split_ws(SubSeq(t, n + 1, Len(t)))

\* FileMetaData.to_string()
to_string(m) ==
    join(<<" ">>, <<mode_to_str(m), decimal(m.uid), decimal(m.gid), decimal(m.size),
                    decimal(m.atime), decimal(m.mtime), decimal(m.ctime)>>)

\* the assertions of from_string and of what it calls; int(s) raises
\* ValueError unless s is digits after an optional sign
from_string_error(str, asserts) ==
    LET comps == split_ws(str)
        unsigned(s) == IF s # <<>> /\ Head(s) \in {"-", "+"} THEN Tail(s) ELSE s
        is_int(s) == unsigned(s) # <<>> /\ \A i \in 1..Len(unsigned(s)) : IsDigit(unsigned(s)[i]) IN
    IF asserts /\ Len(comps) # 7 THEN "AssertionError"
    ELSE IF Len(comps) < 7 THEN "IndexError"
    ELSE IF asserts /\ str_to_mode_error(comps[1]) # "none" THEN "AssertionError"
    ELSE IF ~asserts /\ Len(comps[1]) < 10 THEN "IndexError"
    ELSE IF \E i \in 2..7 : ~is_int(comps[i]) THEN "ValueError"
    ELSE "none"

\* FileMetaData.from_string(s)
from_string(str) ==
    LET comps == split_ws(str)
        d == str_to_mode(comps[1])
        nums == [uid |-> int(comps[2]), gid |-> int(comps[3]), size |-> int(comps[4]),
                 atime |-> int(comps[5]), mtime |-> int(comps[6]), ctime |-> int(comps[7])] IN
    FileMetaData([k \in (DOMAIN d \cup DOMAIN nums) |->
                     IF k \in DOMAIN d THEN d[k] ELSE nums[k]])

\* LocalFileSystem.lstat(path) makes the FileMetaData the run converts;
\* FileMetaData.__init__ asserts that every key of props is in propnames
Lstat ==
    /\ cfun = "to_string" /\ cpc = "lstat"
    /\ cerr' = IF debug /\ \E k \in DOMAIN lstat_props(cin) : k \notin propnames
                 THEN "AssertionError" ELSE "none"
    /\ cin' = IF cerr' = "none" THEN FileMetaData(lstat_props(cin)) ELSE cin
    /\ cpc' = IF cerr' = "none" THEN "start" ELSE "raised"
    /\ UNCHANGED <<cfun, cmid, cout>>
    /\ UNCHANGED <<qvars, fvars, mvars, pvars, bvars, dvars>>

MetaToString == cfun = "to_string" /\ Convert(mode_to_str_error(cin), to_string(cin))

MetaFromString ==
    cfun = "to_string" /\ ConvertBack(from_string_error(cmid, debug), from_string(cmid))

\* ----------------------------------------------------------------- manifest
\* the lines write_manifest starts with: 'shastity', 'version 1', 'end'
HeaderLines ==
    <<<<"s", "h", "a", "s", "t", "i", "t", "y">>,
      <<"v", "e", "r", "s", "i", "o", "n", " ", "1">>,
      <<"e", "n", "d">>>>

\* an entry line with the path as it is
entry_line_raw(e) ==
    to_string(e.md) \o <<" ", "|", " ">> \o e.path \o <<" ", "|", " ">>
      \o join(<<" ">>, [i \in 1..Len(e.hashes) |-> e.hashes[i][1] \o <<",">> \o e.hashes[i][2]])

\* '%s | %s | %s' % (md, pth, rest), rest being the ' '.join of '%s,%s' % (algo, hex)
entry_line(e) ==
    to_string(e.md) \o <<" ", "|", " ">> \o spencode(e.path) \o <<" ", "|", " ">>
      \o join(<<" ">>, [i \in 1..Len(e.hashes) |-> e.hashes[i][1] \o <<",">> \o e.hashes[i][2]])

\* write_manifest(backend, name, entry_generator): the text it puts
write_manifest(es) ==
    join(<<"\n">>, HeaderLines \o [i \in 1..Len(es) |-> entry_line(es[i])])

\* [ line.strip() for line in backend.get(name).split('\n') ]
manifest_lines(text) ==
    LET ls == split(text, "\n") IN [i \in 1..Len(ls) |-> strip(ls[i])]

\* re.match(r'version (\d+)', head): the pattern matches at the start of head
match_version(head) ==
    /\ Len(head) >= 9
    /\ SubSeq(head, 1, 8) = <<"v", "e", "r", "s", "i", "o", "n", " ">>
    /\ IsDigit(head[9])

\* the header loop of read_manifest from the line of index i on (the first line
\* has index 1), with lineno = i on entry: what it raises, or the version
\* (-1 for None) and lineno it leaves; m.group(1) is the run of digits
RECURSIVE read_header(_, _, _)
read_header(lines, i, version) ==
    IF i > Len(lines)
      THEN [error |-> "none", lineno |-> i, line |-> <<>>, version |-> version]
    ELSE IF lines[i] = HeaderLines[3]
      THEN [error |-> "none", lineno |-> i + 1, line |-> <<>>, version |-> version]
    ELSE IF match_version(lines[i])
      THEN LET last == Max({k \in 9..Len(lines[i]) : \A j \in 9..k : IsDigit(lines[i][j])}) IN
           read_header(lines, i + 1, int(SubSeq(lines[i], 9, last)))
    ELSE [error |-> "ManifestError", lineno |-> i + 1, line |-> lines[i], version |-> version]

\* the entry loop of read_manifest from the line of index j on: the entries
\* yielded and the exception that ends the generator, if one does
RECURSIVE read_entries(_, _, _)
read_entries(lines, j, asserts) ==
    IF j > Len(lines) THEN [error |-> "none", yielded |-> <<>>]
    ELSE LET ps == split(lines[j], "|")
             fs == [i \in 1..Len(ps) |-> strip(ps[i])]
             pairs == [i \in 1..Len(split_ws(fs[3])) |-> split(split_ws(fs[3])[i], ",")]
             err == IF Len(fs) # 3 THEN "ValueError"
                      ELSE IF from_string_error(fs[1], asserts) # "none"
                        THEN from_string_error(fs[1], asserts)
                      ELSE IF spdecode_error(fs[2]) # "none" THEN spdecode_error(fs[2])
                      ELSE IF \E i \in 1..Len(pairs) : Len(pairs[i]) # 2 THEN "ValueError"
                      ELSE "none"
             r == read_entries(lines, j + 1, asserts) IN
         IF err # "none" THEN [error |-> err, yielded |-> <<>>]
         ELSE [error |-> r.error,
               yielded |-> <<[path |-> spdecode(fs[2]), md |-> from_string(fs[1]),
                              hashes |-> pairs]>> \o r.yielded]

\* read_manifest(backend, name), iterated to its end, on the text get returns:
\* the exception with its lineno and line, and the entries yielded
read_manifest(text, asserts) ==
    LET lines == manifest_lines(text)
        h == read_header(lines, 2, -1) IN
    IF lines[1] # HeaderLines[1]
      THEN [error |-> "ManifestError", lineno |-> 1, line |-> lines[1], yielded |-> <<>>]
    ELSE IF h.error # "none"
      THEN [error |-> h.error, lineno |-> h.lineno, line |-> h.line, yielded |-> <<>>]
    ELSE IF h.version = -1
      THEN [error |-> "ManifestError", lineno |-> h.lineno, line |-> <<>>, yielded |-> <<>>]
    ELSE LET r == read_entries(lines, h.lineno, asserts) IN
         [error |-> r.error, lineno |-> 0, line |-> <<>>, yielded |-> r.yielded]

\* the sequences of entries written: metadata as lstat gives it, paths with
\* the separators of the manifest text in them, digest lists of length 0 to 2
EntrySeqs ==
    LET sha == <<"s", "h", "a">>
        es == {[path |-> p, md |-> FileMetaData(lstat_props(st)), hashes |-> h] :
                 p \in {<<>>, <<"a", "|">>, <<" ", "U+E5">>},
                 st \in {t \in StatInfos : t.uid = 0 /\ t.size = 7},
                 h \in {<<>>, <<<<sha, <<"a", "b">>>>>>,
                        <<<<sha, <<"a", "b">>>>, <<sha, <<"0", "f">>>>>>}} IN
    UNION {[1..k -> es] : k \in 0..MaxManifest}

\* the manifest texts read without having been written: lines of a header,
\* lines that are none, and an entry line
ManifestTexts ==
    LET ls == {HeaderLines[1], HeaderLines[2], HeaderLines[3], <<>>,
               <<"b", "o", "g", "u", "s">>,
               <<"v", "e", "r", "s", "i", "o", "n", " ", "1", "x">>,
               <<"v", "e", "r", "s", "i", "o", "n">>,
               entry_line([path |-> <<"a">>,
                           md |-> FileMetaData(lstat_props(
                                      CHOOSE t \in StatInfos : t.mode.is_regular)),
                           hashes |-> <<>>])} IN
    {join(<<"\n">>, t) : t \in UNION {[1..k -> ls] : k \in 1..MaxLines}}

WriteManifest == cfun = "write_manifest" /\ Convert("none", write_manifest(cin))

\* the generator read_manifest returns is iterated to its end: on the text
\* write_manifest has put, or on a text that was in the backend
ReadManifest ==
    /\ cfun \in {"write_manifest", "read_manifest"} /\ cpc = "converted"
    /\ LET r == read_manifest(cmid, debug) IN
         /\ cerr' = r.error
         /\ cout' = r
         /\ cpc' = IF r.error = "none" THEN "end" ELSE "raised"
    /\ UNCHANGED <<cfun, cin, cmid>>
    /\ UNCHANGED <<qvars, fvars, mvars, pvars, bvars, dvars>>

\* ------------------------------------------------- paths given to persist
\* the start of _persist_file for path cin[1] and basepath cin[2]: the
\* assertions and stripped_path
PersistPath ==
    /\ cfun = "_persist_file"
    /\ Convert(IF debug /\ ~path_assertions(cin[1], cin[2]) THEN "AssertionError" ELSE "none",
               slice_from(cin[1], Len(with_slash(cin[2]))))

\* ------------------------------------------------------------ MemoryBackend
\* the names of the calls; there are two MemoryBackend instances and two data
BackendNames == {"m", "n"}

\* a _dict[name] = data that keeps the data of a name already there
setitem_keep(d, name, data) ==
    [n \in DOMAIN d \cup {name} |-> IF n \in DOMAIN d THEN d[n] ELSE data]

\* _dict[name] = data
setitem(d, name, data) ==
    [n \in DOMAIN d \cup {name} |-> IF n = name THEN data ELSE d[n]]

\* MemoryBackend.put(name, data)
BackendPut(inst, name, data) ==
    /\ Len(bcalls) < MaxCalls
    /\ bcalls' = Append(bcalls, [inst |-> inst, op |-> "put", name |-> name, data |-> data])
    /\ bdict' = setitem(bdict, name, data)
    /\ bret' = "None"
    /\ UNCHANGED <<qvars, fvars, mvars, pvars, cvars, dvars>>

\* MemoryBackend.get(name)
BackendGet(inst, name) ==
    /\ Len(bcalls) < MaxCalls
    /\ bcalls' = Append(bcalls, [inst |-> inst, op |-> "get", name |-> name, data |-> ""])
    /\ bret' = IF name \in DOMAIN bdict THEN bdict[name] ELSE "KeyError"
    /\ UNCHANGED bdict
    /\ UNCHANGED <<qvars, fvars, mvars, pvars, cvars, dvars>>

\* MemoryBackend.list()
BackendList(inst) ==
    /\ Len(bcalls) < MaxCalls
    /\ bcalls' = Append(bcalls, [inst |-> inst, op |-> "list", name |-> "", data |-> ""])
    /\ bret' = DOMAIN bdict
    /\ UNCHANGED bdict
    /\ UNCHANGED <<qvars, fvars, mvars, pvars, cvars, dvars>>

\* MemoryBackend.delete(name)
BackendDelete(inst, name) ==
    /\ Len(bcalls) < MaxCalls
    /\ bcalls' = Append(bcalls, [inst |-> inst, op |-> "delete", name |-> name, data |-> ""])
    /\ IF name \in DOMAIN bdict
         THEN bdict' = [n \in DOMAIN bdict \ {name} |-> bdict[n]] /\ bret' = "None"
         ELSE bret' = "KeyError" /\ UNCHANGED bdict
    /\ UNCHANGED <<qvars, fvars, mvars, pvars, cvars, dvars>>

InitBackend ==
    /\ producers = {} /\ limit = 0
    /\ max_conc = 1
    /\ InitQueue
    /\ InitFile(0)
    /\ InitMatOff
    /\ InitPersistOff
    /\ InitOthersOff

NextBackend ==
    \/ \E i \in {1, 2}, n \in BackendNames, d \in {"b1", "b2"} : BackendPut(i, n, d)
    \/ \E i \in {1, 2}, n \in BackendNames : BackendGet(i, n)
    \/ \E i \in {1, 2} : BackendList(i)
    \/ \E i \in {1, 2}, n \in BackendNames : BackendDelete(i, n)

SpecBackend == InitBackend /\ [][NextBackend]_vars

\* ---------------------------------------------------------- DirectoryBackend
\* DirectoryBackend.hidden_prefix
hidden_prefix ==
    <<"_", "_", "s", "h", "a", "s", "t", "i", "t", "y", "_", "d", "i", "r", "e", "c", "t",
      "o", "r", "y", "_", "b", "a", "c", "k", "e", "n", "d", ".">>

\* the instances the storage queue's factory constructs, all on one directory
DirInsts == 1..MaxInst

\* what the directory may hold before the first instance is constructed:
\* temporary files of earlier runs, and a block
DirNames == {hidden_prefix \o <<ToString(k)>> : k \in 1..MaxStale} \cup {<<"m">>}

\* __init__: os.makedirs(path) unless the path exists, and files_to_clean, the
\* names of os.listdir(path) that start with hidden_prefix.  The queue calls
\* its factory with its lock held, so one constructor runs at a time.
DirInit(t) ==
    /\ dinst[t].pc = "new"
    /\ \A u \in DirInsts : dinst[u].pc # "clean"
    /\ ddir' = [ddir EXCEPT !.exists = TRUE]
    /\ dinst' = [dinst EXCEPT ![t].pc = "clean",
                              ![t].clean = {n \in ddir.files : startswith(n, hidden_prefix)}]
    /\ UNCHANGED <<qvars, fvars, mvars, pvars, cvars, bvars>>

\* for fname in files_to_clean: os.unlink(os.path.join(path, fname)), one
\* file per step; __init__ returns after the last
DirUnlink(t) ==
    /\ dinst[t].pc = "clean"
    /\ IF dinst[t].clean = {}
         THEN /\ dinst' = [dinst EXCEPT ![t].pc = "ready"]
              /\ UNCHANGED ddir
         ELSE \E n \in dinst[t].clean :
                IF n \in ddir.files
                  THEN /\ ddir' = [ddir EXCEPT !.files = @ \ {n}]
                       /\ dinst' = [dinst EXCEPT ![t].clean = @ \ {n}]
                  ELSE /\ dinst' = [dinst EXCEPT ![t].pc = "ended", ![t].ret = "OSError"]
                       /\ UNCHANGED ddir
    /\ UNCHANGED <<qvars, fvars, mvars, pvars, cvars, bvars>>

\* put(name, data) is called by the worker the instance was handed to: the
\* assertion on the name, and log.info
DirPutCall(t, name) ==
    /\ dinst[t].pc = "ready"
    /\ IF debug /\ startswith(name, hidden_prefix)
         THEN dinst' = [dinst EXCEPT ![t].pc = "ended", ![t].ret = "AssertionError",
                                     ![t].name = name]
         ELSE dinst' = [dinst EXCEPT ![t].pc = "mkstemp", ![t].name = name]
    /\ UNCHANGED ddir
    /\ UNCHANGED <<qvars, fvars, mvars, pvars, cvars, bvars>>

\* fd, tmppath = tempfile.mkstemp(...): the module imports os.path,
\* shastity.backend and shastity.logging and nothing else, so the name
\* tempfile is not defined; evaluating it raises NameError, before the try
\* statement, and put creates no file at all
DirPutMkstemp(t) ==
    /\ dinst[t].pc = "mkstemp"
    /\ dinst' = [dinst EXCEPT ![t].pc = "ended", ![t].ret = "NameError"]
    /\ UNCHANGED ddir
    /\ UNCHANGED <<qvars, fvars, mvars, pvars, cvars, bvars>>

InitDir ==
    /\ producers = {} /\ limit = 0
    /\ max_conc = 1
    /\ InitQueue
    /\ InitFile(0)
    /\ InitMatOff
    /\ InitPersistOff
    /\ cfun = "off" /\ cin = None /\ cmid = None /\ cout = None
    /\ cpc = "off" /\ cerr = "none"
    /\ bcalls = <<>> /\ bret = None /\ bdict = <<>>
    /\ \/ ddir = [exists |-> FALSE, files |-> {}]
       \/ \E fs \in SUBSET DirNames : ddir = [exists |-> TRUE, files |-> fs]
    /\ dinst = [t \in DirInsts |->
                   [pc |-> "new", clean |-> {}, ret |-> "none", name |-> <<>>]]

NextDir ==
    \/ \E t \in DirInsts : DirInit(t)
    \/ \E t \in DirInsts : DirUnlink(t)
    \/ \E t \in DirInsts, n \in {<<"m">>, <<"n">>} : DirPutCall(t, n)
    \/ \E t \in DirInsts : DirPutMkstemp(t)

SpecDir == InitDir /\ [][NextDir]_vars

\* ------------------------------------------------------------ conversion runs
\* One run applies a conversion to an argument and then the inverse conversion
\* to the result.  The arguments: the property dicts with exactly one file
\* type flag; the strings matching
\* [-bcdlp][r-][w-][x-sS][r-][w-][x-sS][r-][w-][x-tT]; character strings; files;
\* sequences of manifest entries; manifest texts; and, with the base paths '',
\* 's', 's/' and 's/x', the paths a traversal hands to _persist_file: names
\* joined by '/', with or without a '/' in front or at the end.
CodecInputs ==
    LET joined == {join(<<"/">>, ns) :
                     ns \in UNION {[1..k -> {<<"s">>, <<"x">>}] : k \in 1..MaxDepth}}
        paths == joined \cup {<<"/">> \o q : q \in joined} \cup {q \o <<"/">> : q \in joined} IN
    ({"mode_to_str"} \X
       {[is_regular |-> t = 1, is_block_device |-> t = 2, is_character_device |-> t = 3,
         is_directory |-> t = 4, is_symlink |-> t = 5, is_fifo |-> t = 6,
         user_read |-> b[1], user_write |-> b[2], user_execute |-> b[3], is_setuid |-> b[4],
         group_read |-> b[5], group_write |-> b[6], group_execute |-> b[7],
         is_setgid |-> b[8], other_read |-> b[9], other_write |-> b[10],
         other_execute |-> b[11], is_sticky |-> b[12]] : t \in 1..6, b \in [1..12 -> BOOLEAN]})
      \cup ({"str_to_mode"} \X
              {<<t, ur, uw, ux, gr, gw, gx, or, ow, ox>> :
                 t \in {"-", "b", "c", "d", "l", "p"},
                 ur \in {"r", "-"}, uw \in {"w", "-"}, ux \in {"x", "-", "s", "S"},
                 gr \in {"r", "-"}, gw \in {"w", "-"}, gx \in {"x", "-", "s", "S"},
                 or \in {"r", "-"}, ow \in {"w", "-"}, ox \in {"x", "-", "t", "T"}})
      \cup ({"spencode"} \X
              UNION {[1..k -> {"a", "w", "'", "%", " ", "U+E5"}] : k \in 0..MaxStrLen})
      \cup ({"to_string"} \X StatInfos)
      \cup ({"write_manifest"} \X EntrySeqs)
      \cup ({"read_manifest"} \X ManifestTexts)
      \cup ({"_persist_file"} \X
              (paths \X {<<>>, <<"s">>, <<"s", "/">>, <<"s", "/", "x">>}))

\* A run of to_string starts with the lstat of the file; a run of
\* read_manifest starts with the text in the backend.
InitCodec ==
    /\ producers = {} /\ limit = 0
    /\ max_conc = 1
    /\ InitQueue
    /\ InitFile(0)
    /\ InitMatOff
    /\ debug \in BOOLEAN
    /\ basepath = <<>> /\ traversal = <<>> /\ blocksize = 1
    /\ uploaded = <<>> /\ skipblocks = <<>>
    /\ ppc = "off" /\ pnext = 0 /\ fpos = 0
    /\ parts = <<>> /\ phashes = <<>>
    /\ mf = <<>> /\ mf_lines = <<>> /\ mstore = <<>>
    /\ bcalls = <<>> /\ bret = None /\ bdict = <<>>
    /\ ddir = [exists |-> FALSE, files |-> {}] /\ dinst = <<>>
    /\ \E i \in CodecInputs :
         /\ cfun = i[1]
         /\ IF i[1] = "read_manifest"
              THEN cin = None /\ cmid = i[2] /\ cpc = "converted"
              ELSE cin = i[2] /\ cmid = None
                   /\ cpc = IF i[1] = "to_string" THEN "lstat" ELSE "start"
    /\ cout = None
    /\ cerr = "none"

NextCodec ==
    \/ ModeToStr
    \/ StrToMode
    \/ Spencode
    \/ Spdecode
    \/ Lstat
    \/ MetaToString
    \/ MetaFromString
    \/ WriteManifest
    \/ ReadManifest
    \/ PersistPath

SpecCodec == InitCodec /\ [][NextCodec]_vars

C25_PathCodec ==
    LET safe == {Chr(b) : b \in (48..57) \cup (65..90) \cup (97..122)} \cup {"_", "-", ":", "."}
        hexchars == {HexDigits[i] : i \in 1..16} \cup {"a", "b", "c", "d", "e", "f"}
        RECURSIVE SafeOrEscaped(_)
        SafeOrEscaped(str) ==
            \/ str = <<>>
            \/ Head(str) \in safe /\ SafeOrEscaped(Tail(str))
            \/ /\ Len(str) >= 3
               /\ str[1] = "%" /\ str[2] \in hexchars /\ str[3] \in hexchars
               /\ SafeOrEscaped(SubSeq(str, 4, Len(str))) IN
    cfun = "spencode" =>
        /\ cerr = "none"
        /\ cpc # "start" =>
             /\ Len(cmid) >= 2 /\ cmid[1] = "'" /\ cmid[Len(cmid)] = "'"
             /\ SafeOrEscaped(SubSeq(cmid, 2, Len(cmid) - 1))
        /\ cpc = "end" => cout = cin

\* a string with a quote, a '%' and a non-ASCII character came back
C25_Witness ==
    /\ cfun = "spencode" /\ cpc = "end"
    /\ cin = <<"'", "%", "U+E5">>
    /\ cmid = <<"'", "%", "2", "7", "%", "2", "5", "%", "C", "3", "%", "A", "5", "'">>
    /\ cout = cin

\* C21 (manifest round trip): reading back the manifest written from a
\* sequence of entries raises nothing and yields as many entries, in the same
\* order, each with the path, the metadata text form and the digest list of
\* the entry written.
C21_ManifestRoundTrip ==
    (cfun = "write_manifest" /\ cpc \in {"end", "raised"}) =>
        /\ cerr = "none"
        /\ Len(cout.yielded) = Len(cin)
        /\ \A j \in 1..Len(cin) :
             /\ cout.yielded[j].path = cin[j].path
             /\ to_string(cout.yielded[j].md) = to_string(cin[j].md)
             /\ cout.yielded[j].hashes = cin[j].hashes

\* two entries came back, the first with a '|' in its path and no digest, the
\* second a symlink with two digests
C21_Witness ==
    /\ cfun = "write_manifest" /\ cpc = "end"
    /\ Len(cin) = 2 /\ Len(cout.yielded) = 2
    /\ cin[1].path = <<"a", "|">> /\ cin[1].hashes = <<>>
    /\ Len(cin[2].hashes) = 2 /\ cin[2].md.is_symlink
    /\ cout.yielded[1].path = <<"a", "|">>

\* C22 (manifest header validation), as the claim states it: read_manifest
\* raises ManifestError and yields no entry when the first line is not
\* 'shastity', when a header line before 'end' is not a 'version N' line (the
\* word version, a space, digits), and when the header has no version line.
\* Violated: 'version 1x' is accepted.
C22_Counterexample ==
    LET lines == manifest_lines(cmid)
        ends == {i \in 2..Len(lines) : lines[i] = HeaderLines[3]}
        header == 2..((IF ends = {} THEN Len(lines) + 1
                                    ELSE CHOOSE i \in ends : \A k \in ends : i <= k) - 1)
        IsVersionLine(l) ==
            /\ Len(l) >= 9
            /\ SubSeq(l, 1, 8) = <<"v", "e", "r", "s", "i", "o", "n", " ">>
            /\ \A i \in 9..Len(l) : IsDigit(l[i]) IN
    (/\ cfun = "read_manifest" /\ cpc \in {"end", "raised"}
     /\ \/ lines[1] # HeaderLines[1]
        \/ \E i \in header : ~IsVersionLine(lines[i])
        \/ \A i \in header : ~IsVersionLine(lines[i]))
      => (cerr = "ManifestError" /\ cout.yielded = <<>>)

\* C23 (parse error line numbers), as the claim states it: the lineno of the
\* ManifestError is the 1-based number of the offending line: 1 for a first
\* line that is not 'shastity', k for the first header line that is neither
\* 'end' nor matched.  Violated: an invalid header line k is reported as line
\* k + 1.
C23_Counterexample ==
    LET lines == manifest_lines(cmid)
        ends == {i \in 2..Len(lines) : lines[i] = HeaderLines[3]}
        header == 2..((IF ends = {} THEN Len(lines) + 1
                                    ELSE CHOOSE i \in ends : \A k \in ends : i <= k) - 1)
        bad == {i \in header : ~match_version(lines[i])} IN
    (cfun = "read_manifest" /\ cerr = "ManifestError") =>
        /\ lines[1] # HeaderLines[1] => cout.lineno = 1
        /\ (lines[1] = HeaderLines[1] /\ bad # {}) =>
              cout.lineno = CHOOSE i \in bad : \A k \in bad : i <= k

C29_Counterexample ==
    cfun = "to_string" =>
        /\ cerr = "none"
        /\ cpc = "end" =>
             \A f \in propnames \cup (IF cin.is_symlink THEN {"symlink_value"} ELSE {}) :
                 f \in DOMAIN cout /\ cout[f] = cin[f]

\* C26 (backend store semantics): whatever instances the calls are made on,
\* get(N) returns the data of the most recent put of N not followed by a
\* delete of N, list() returns exactly the names put and not deleted since,
\* and get or delete of a name that is not there raises KeyError and leaves
\* the store as it was.
C26_StoreSemantics ==
    LET Updates(n, k) == {i \in 1..k : bcalls[i].name = n /\ bcalls[i].op \in {"put", "delete"}}
        PutAndKept(n, k) == Updates(n, k) # {} /\ bcalls[Max(Updates(n, k))].op = "put"
        LastPut(n, k) == bcalls[Max(Updates(n, k))].data IN
    /\ DOMAIN bdict = {n \in BackendNames : PutAndKept(n, Len(bcalls))}
    /\ \A n \in DOMAIN bdict : bdict[n] = LastPut(n, Len(bcalls))
    /\ bcalls # <<>> =>
         LET k == Len(bcalls) - 1
             c == bcalls[Len(bcalls)] IN
         /\ c.op = "get" =>
              bret = IF PutAndKept(c.name, k) THEN LastPut(c.name, k) ELSE "KeyError"
         /\ c.op = "list" => bret = {n \in BackendNames : PutAndKept(n, k)}
         /\ c.op = "delete" => bret = IF PutAndKept(c.name, k) THEN "None" ELSE "KeyError"

\* a name put twice through different instances with different data was read
\* through the first
C26_Witness ==
    /\ Len(bcalls) = 3
    /\ bcalls[1].op = "put" /\ bcalls[2].op = "put" /\ bcalls[3].op = "get"
    /\ bcalls[1].name = bcalls[2].name /\ bcalls[3].name = bcalls[1].name
    /\ bcalls[1].inst # bcalls[2].inst /\ bcalls[3].inst = bcalls[1].inst
    /\ bcalls[1].data # bcalls[2].data
    /\ bret = bcalls[2].data

\* C27 (empty tree scenario), as the claim states it: persisting the traversal
\* of an empty directory with that directory as base path ends with a
\* manifest of the one entry ('', directory metadata, []) and no PUT.
\* Violated: the root fails the path assertions of _persist_file.
C27_Counterexample ==
    (Len(traversal) = 1 /\ PersistQuiescent) =>
        /\ ppc = "done"
        /\ mstore = <<<<[path |-> <<>>, kind |-> "dir", hashes |-> <<>>]>>>>
        /\ \A o \in Created : oplist[o].kind # "PUT"

\* C30 (callback completes before the slot is released), as the claim states
\* it: a callback is entered and returns while its operation is still in the
\* in-flight set, so none is running or still to run when a wait() called
\* after the enqueue returns.  Violated: perform() notifies the queue first.
C30_Counterexample ==
    /\ \A o \in Created : wpc[o] = "callback" => o \in ops
    /\ \A c \in Clients : AtWaitReturn(c) => \A o \in before[c] : wpc[o] # "callback"

\* C31: the callback of the GET enqueued for block i of file F calls
\* write_block on F's own FileMaterialization with index i, whatever the main
\* loop has done by the time the callback runs: a callback inside write_block
\* holds the file and the index its operation was built for.
C31_Counterexample ==
    \A o \in Created :
        wpc[o] \in {"wb_enter", "wb_waiting", "wb_write", "wb_update"}
            => cbargs[o] = oplist[o].name

\* C32: the backend an operation used is back in the queue's pool once the
\* operation has been removed from the in-flight set, unless a later
\* operation has taken it from the pool; so the factory is called at most
\* max_conc times, and no backend is bound to two running operations.
C32_Counterexample ==
    /\ factoryCalls <= max_conc
    /\ \A o \in Created :
         wpc[o] \in {"callback", "end"} =>
             \/ wbackend[o] \in backends
             \/ \E p \in Created : p > o /\ wbackend[p] = wbackend[o]
    /\ \A o, p \in Created :
         (o # p /\ wpc[o] \in {"run", "notify"} /\ wpc[p] \in {"run", "notify"})
             => wbackend[o] # wbackend[p]

C34_CallbackOnlyOnSuccess ==
    [][\A o \in Created :
         /\ (wpc[o] # "callback" /\ wpc'[o] = "callback")
               => (wpc[o] = "notify" /\ Success(o) /\ oplist[o].callback)
         /\ (wpc[o] = "notify" /\ wpc'[o] = "end")
               => ~(Success(o) /\ oplist[o].callback)
         /\ wpc[o] = "callback" => (wpc'[o] \in {"callback", "end"} /\ Success(o))
         /\ wpc[o] = "end" => wpc'[o] = "end"]_vars

\* a GET with a callback has failed and its worker is through, and another
\* GET's callback is running
C34_Witness ==
    \E o1, o2 \in Created :
        /\ oplist[o1].callback /\ Failure(o1) /\ wpc[o1] = "end"
        /\ wpc[o2] = "callback"

\* C35: errors do not leak from perform(): when execute() has raised, and
\* when the completion callback has raised, the operation's result is a
\* failure and the queue's failed flag is set (so that a later wait() raises).
C35_Counterexample ==
    \A o \in Created :
        /\ (wpc[o] \in {"callback", "end"} /\ Failure(o)) => failed
        /\ wpc[o] \in {"AssertionError", "ValueError"} => (Failure(o) /\ failed)

\* C36: with several callers blocked on the queue at once, no blocked caller
\* is left behind: there is no state in which a caller is still blocked in
\* cond.wait() although the in-flight set is empty, every other caller has
\* returned and no further operation is enqueued (from such a state on
\* nothing calls notify, so the caller stays blocked for ever).
C36_Counterexample ==
    \A c \in producers :
        ~ /\ c \in waiters
          /\ ops = {}
          /\ Len(oplist) = limit
          /\ \A d \in producers \ {c} : pc[d] = "idle"

\* C37: for a manifest in traversal order (the root directory first, every
\* other entry below it, children in sorted order and each directory followed
\* by its subtree) the directory-context assertions of materialize hold at
\* every entry that is not a directory, also at a file that follows a
\* sibling subdirectory: materialize does not stop with an AssertionError.
C37_Counterexample ==
    LET root == entries[1]
        InTraversalOrder ==
            /\ root.kind = "dir"
            /\ \A e \in 2..Len(entries) :
                 startswith(entries[e].path, root.path \o <<"/">>)
    IN  (destIsDir /\ InTraversalOrder) => mpc # "AssertionError"

\* C38: every regular file materialize has opened for writing ends up
\* flushed, fsynced and closed, a file with an empty digest list included:
\* once materialize has returned and no worker can take a step, every file
\* that was opened is closed and has been fsynced once.
C38_Counterexample ==
    (mpc = "returned" /\ MatQuiescent) =>
        \A e \in 1..Len(entries) :
            (entries[e].kind = "file" /\ files[e].open)
                => (files[e].closed /\ files[e].fsyncs = 1)

\* C40, as the claim states it: a manifest entry whose path contains '|' is
\* written with a literal '|' inside its path field and is rejected when the
\* manifest is read back.
C40_Counterexample ==
    (/\ cfun = "write_manifest" /\ cpc \in {"end", "raised"}
     /\ \E j \in 1..Len(cin) : \E i \in 1..Len(cin[j].path) : cin[j].path[i] = "|")
        => cerr # "none"

\* C40, amended: spencode percent-encodes '|' (it is not one of the safe
\* characters), so the path field of a written entry line holds no '|', the
\* line splits at '|' into exactly its three fields, the second being the
\* encoded path, and read_manifest accepts the line and yields the path
\* that was written.
C40_PipeIsEscaped ==
    (cfun = "write_manifest" /\ cpc \in {"converted", "end", "raised"}) =>
        /\ cpc # "raised"
        /\ \A j \in 1..Len(cin) :
             LET pth == spencode(cin[j].path)
                 fields == split(manifest_lines(cmid)[Len(HeaderLines) + j], "|") IN
             /\ \A i \in 1..Len(pth) : pth[i] # "|"
             /\ Len(fields) = 3
             /\ strip(fields[2]) = pth
             /\ cpc = "end" => cout.yielded[j].path = cin[j].path

\* the path a| has been written as 'a%7C', quotes included, and read back as a|
C40_Witness ==
    /\ cfun = "write_manifest" /\ cpc = "end"
    /\ Len(cin) >= 1
    /\ cin[1].path = <<"a", "|">>
    /\ strip(split(manifest_lines(cmid)[Len(HeaderLines) + 1], "|")[2])
          = <<"'", "a", "%", "7", "C", "'">>
    /\ cout.yielded[1].path = <<"a", "|">>

====
